---------------------------- MODULE GoodsDesk_proofs ----------------------------
(***************************************************************************)
(* Proofs about GoodsDesk, for any tabs, products, orders and deliveries,  *)
(* and whatever the bounds are.                                            *)
(***************************************************************************)
EXTENDS GoodsDesk, Sums_proofs

USE GoodsDeskAssumption

-------------------------------------------------------------------------------
(* What a call may carry *)

Order == [reference : Nat, status : Statuses \cup {"none"}, received : [Products -> Nat]]

Within(o, received) ==
  /\ received \in [Products -> Nat]
  /\ \A p \in Products : received[p] <= Ordered[o][p]

IsDelivery(l) == DOMAIN l \subseteq Products /\ \A p \in DOMAIN l : l[p] \in Nat

ReceiptOK(c) ==
  /\ c.order \in Orders
  /\ c.seen \in Order /\ Within(c.order, c.seen.received)
  /\ Within(c.order, c.received)
  /\ c.no \in 1 .. MaxCalls
  /\ IsDelivery(c.delivery)
  /\ c.step # "line" => c.product \in Products
  /\ c.had \subseteq 1 .. MaxCalls

CallOK(c) ==
  /\ c.op = "create" => /\ c.order \in Orders
                        /\ c.step = "number" => c.seen \in Nat
                        /\ c.step = "add" => c.number \in Nat
  /\ c.op = "receive" => ReceiptOK(c)
  /\ c.op = "transfer" => c.product \in Products /\ c.units \in Nat
  /\ c.op = "return" => IsDelivery(c.delivery)

CallsOK ==
  /\ call = [d \in Desks |-> call[d]]
  /\ \A d \in Desks : CallOK(call[d])

Types == TypeOK /\ CallsOK

LEMMA Went ==
  ASSUME CallsOK, NEW d \in Desks, NEW c, Goes(d, c)
  PROVE  /\ call' = [t \in Desks |-> call'[t]]
         /\ call'[d] = c
         /\ \A t \in Desks : t # d => call'[t] = call[t]
BY DEF CallsOK, Goes

LEMMA WentOK ==
  ASSUME CallsOK, NEW d \in Desks, NEW c, CallOK(c), Goes(d, c)
  PROVE  CallsOK'
<1>1. /\ call' = [t \in Desks |-> call'[t]]
      /\ call'[d] = c
      /\ \A t \in Desks : t # d => call'[t] = call[t]
  BY Went
<1>2. \A t \in Desks : CallOK(call'[t])
  <2>1. \A t \in Desks : CallOK(call[t])
    BY DEF CallsOK
  <2> QED BY <1>1, <2>1
<1> QED BY <1>1, <1>2 DEF CallsOK

LEMMA IdleOK == CallOK(Idle)
BY DEF CallOK, Idle

LEMMA DeliveriesAre == \A l \in Deliveries : IsDelivery(l)
BY DEF IsDelivery

LEMMA WithoutIs ==
  ASSUME NEW l, IsDelivery(l), NEW p
  PROVE  IsDelivery(Without(l, p))
BY DEF IsDelivery, Without

LEMMA CountedIs ==
  ASSUME NEW o \in Orders, NEW p \in Products, NEW had \in Nat, NEW n \in Nat
  PROVE  /\ Counted(o, p, had, n) \in Nat
         /\ Counted(o, p, had, n) <= Ordered[o][p]
         /\ Counted(o, p, had, n) <= had + n
         /\ had <= Ordered[o][p] => had <= Counted(o, p, had, n)
BY DEF Counted, Smaller

LEMMA ReceiptIs ==
  ASSUME NEW o \in Orders, NEW seen \in Order, Within(o, seen.received),
         NEW no \in 1 .. MaxCalls, NEW received, Within(o, received),
         NEW l, IsDelivery(l), NEW step, NEW p, step # "line" => p \in Products,
         NEW had \in SUBSET (1 .. MaxCalls)
  PROVE  CallOK(Receipt(step, o, seen, no, received, l, p, had))
BY DEF CallOK, ReceiptOK, Receipt

-------------------------------------------------------------------------------
(* Type correctness *)

LEMMA TypesInit == Init => Types
<1> SUFFICES ASSUME Init PROVE Types
  OBVIOUS
<1>1. Nothing \in [Products -> Nat]
  BY DEF Nothing
<1>2. TypeOK
  <2>1. /\ NoOrder \in [reference : Nat, status : Statuses \cup {"none"}, received : [Products -> Nat]]
        /\ NoOrder.received = Nothing
    BY <1>1 DEF NoOrder
  <2>2. \A o \in Orders, p \in Products : orders[o].received[p] <= Ordered[o][p]
    BY <2>1 DEF Init, Nothing
  <2>3. {batches, arrived} \subseteq [Products -> SUBSET (1 .. MaxCalls)]
    BY DEF Init
  <2>4. booked \in [Orders -> [Products -> Nat]] /\ {out, in, returned, sentBack} \subseteq [Products -> Nat]
    BY <1>1 DEF Init
  <2>5. orders \in [Orders -> [reference : Nat, status : Statuses \cup {"none"}, received : [Products -> Nat]]]
    BY <2>1 DEF Init
  <2>6. /\ sequence \in Nat /\ gone \subseteq Products /\ begun \in 0 .. MaxCalls
        /\ marred \subseteq Orders /\ halved \subseteq Products
    BY DEF Init
  <2>7. raced \in BOOLEAN
    BY Zenon DEF Init
  <2> QED BY <2>2, <2>3, <2>4, <2>5, <2>6, <2>7 DEF TypeOK
<1>3. CallsOK
  BY IdleOK DEF Init, CallsOK
<1> QED BY <1>2, <1>3 DEF Types

LEMMA LeavesIs ==
  ASSUME NEW total \in [Products -> Nat], NEW p \in Products, NEW n \in Nat
  PROVE  Leaves(total, p, n) \in [Products -> Nat]
BY DEF Leaves

LEMMA TypesNext == Types /\ [Next]_vars => Types'
<1> SUFFICES ASSUME Types, [Next]_vars PROVE Types'
  OBVIOUS
<1> USE DEF Types
<1>1. ASSUME NEW d \in Desks, NEW o \in Orders, ReadSequence(d, o) PROVE Types'
  <2>1. CallOK([op |-> "create", step |-> "number", order |-> o, seen |-> sequence])
    BY DEF CallOK, TypeOK
  <2>2. CallsOK'
    BY <1>1, <2>1, WentOK DEF ReadSequence
  <2>3. TypeOK'
    BY <1>1 DEF TypeOK, ReadSequence, Begins, desk, journal, flaws
  <2> QED BY <2>2, <2>3
<1>2. ASSUME NEW d \in Desks, WriteSequence(d) PROVE Types'
  <2>1. CallOK(call[d]) /\ call[d].op = "create" /\ call[d].step = "number"
    BY <1>2 DEF CallsOK, WriteSequence, At
  <2>2. sequence' \in Nat
    BY <1>2, <2>1 DEF CallOK, WriteSequence, NextNumber
  <2>3. CallOK([op |-> "create", step |-> "add", order |-> call[d].order, number |-> sequence'])
    BY <2>1, <2>2 DEF CallOK
  <2>4. CallsOK'
    BY <1>2, <2>3, WentOK DEF WriteSequence
  <2>5. TypeOK'
    BY <1>2, <2>2 DEF TypeOK, WriteSequence, journal
  <2> QED BY <2>4, <2>5
<1>3. ASSUME NEW d \in Desks, NEW status \in {"draft", "ordered"}, AddOrder(d, status)
      PROVE  Types'
  <2>1. CallOK(call[d]) /\ call[d].op = "create" /\ call[d].step = "add"
    BY <1>3 DEF CallsOK, AddOrder, At
  <2>2. call[d].order \in Orders /\ call[d].number \in Nat /\ Nothing \in [Products -> Nat]
    BY <2>1 DEF CallOK, Nothing
  <2>3. \A p \in Products : Nothing[p] <= Ordered[call[d].order][p]
    BY <2>2 DEF Nothing
  <2>4. CallsOK'
    BY <1>3, IdleOK, WentOK DEF AddOrder, Ends
  <2>5. TypeOK'
    BY <1>3, <2>2, <2>3 DEF TypeOK, AddOrder, journal, flaws, Statuses
  <2> QED BY <2>4, <2>5
<1>4. ASSUME NEW d \in Desks, NEW o \in Orders, NEW l \in Deliveries, GetOrder(d, o, l)
      PROVE  Types'
  <2>1. begun' \in 1 .. MaxCalls
    BY <1>4 DEF GetOrder, Begins, TypeOK
  <2>2. orders[o] \in Order /\ Within(o, orders[o].received)
    BY DEF TypeOK, Order, Within
  <2>3. CallOK(Receipt("line", o, orders[o], begun', orders[o].received, l, NoProduct, {}))
    BY <2>1, <2>2, DeliveriesAre, ReceiptIs
  <2>4. CallsOK'
    BY <1>4, <2>3, WentOK DEF GetOrder
  <2>5. TypeOK'
    BY <1>4, <2>1 DEF TypeOK, GetOrder, desk, journal, flaws
  <2> QED BY <2>4, <2>5
<1>5. ASSUME NEW d \in Desks, NEW p \in Products, BookLine(d, p) PROVE Types'
  <2> DEFINE c == call[d]
             counted == [c.received EXCEPT ![p] = Counted(c.order, p, @, c.delivery[p])]
  <2>1. CallOK(c) /\ c.op = "receive" /\ c.step = "line" /\ p \in DOMAIN c.delivery
    BY <1>5 DEF CallsOK, BookLine, At
  <2>2. ReceiptOK(c) /\ c.delivery[p] \in Nat
    BY <2>1 DEF CallOK, ReceiptOK, IsDelivery
  <2>3. Within(c.order, counted)
    <3>1. c.order \in Orders /\ c.received[p] \in Nat
      BY <2>2 DEF ReceiptOK, Within
    <3>2. /\ Counted(c.order, p, c.received[p], c.delivery[p]) \in Nat
          /\ Counted(c.order, p, c.received[p], c.delivery[p]) <= Ordered[c.order][p]
      BY <2>2, <3>1, CountedIs
    <3> QED BY <2>2, <3>2 DEF ReceiptOK, Within
  <2>4. CallOK(Receipt("batch", c.order, c.seen, c.no, counted, Without(c.delivery, p), p, {}))
    <3>1. IsDelivery(Without(c.delivery, p))
      BY <2>2, WithoutIs DEF ReceiptOK
    <3> HIDE DEF counted
    <3> QED BY <2>2, <2>3, <3>1, ReceiptIs DEF ReceiptOK
  <2>5. CallsOK'
    BY <1>5, <2>4, WentOK DEF BookLine
  <2>6. booked' \in [Orders -> [Products -> Nat]] /\ arrived' \in [Products -> SUBSET (1 .. MaxCalls)]
    <3>1. c.order \in Orders /\ c.no \in 1 .. MaxCalls
      BY <2>2 DEF ReceiptOK
    <3>2. booked \in [Orders -> [Products -> Nat]] /\ arrived \in [Products -> SUBSET (1 .. MaxCalls)]
      BY DEF TypeOK
    <3>3. booked[c.order][p] + c.delivery[p] \in Nat
      BY <2>2, <3>1, <3>2
    <3>4. Journal(c.order, p, c)
      BY <1>5 DEF BookLine
    <3>5. [booked EXCEPT ![c.order][p] = @ + c.delivery[p]] \in [Orders -> [Products -> Nat]]
      BY <3>1, <3>2, <3>3
    <3>6. [arrived EXCEPT ![p] = @ \cup {c.no}] \in [Products -> SUBSET (1 .. MaxCalls)]
      BY <3>1, <3>2
    <3> QED BY <3>2, <3>4, <3>5, <3>6 DEF Journal
  <2>7. TypeOK'
    BY <1>5, <2>6 DEF TypeOK, BookLine, desk, flaws
  <2> QED BY <2>5, <2>7
<1>6. ASSUME NEW d \in Desks, NEW p \in Products, SkipLine(d, p) PROVE Types'
  <2> DEFINE c == call[d]
  <2>1. CallOK(c) /\ c.op = "receive"
    BY <1>6 DEF CallsOK, SkipLine, At
  <2>2. ReceiptOK(c) /\ IsDelivery(Without(c.delivery, p))
    BY <2>1, WithoutIs DEF CallOK, ReceiptOK
  <2>3. CallOK(Receipt("line", c.order, c.seen, c.no, c.received, Without(c.delivery, p), NoProduct, {}))
    BY <2>2, ReceiptIs DEF ReceiptOK
  <2>4. CallsOK'
    BY <1>6, <2>3, WentOK DEF SkipLine
  <2>5. TypeOK'
    BY <1>6 DEF TypeOK, SkipLine, desk, journal, flaws
  <2> QED BY <2>4, <2>5
<1>7. ASSUME NEW d \in Desks, NEW named \in BOOLEAN, ReadBatches(d, named) PROVE Types'
  <2> DEFINE c == call[d]
  <2>1. CallOK(c) /\ c.op = "receive" /\ c.step = "batch"
    BY <1>7 DEF CallsOK, ReadBatches, At
  <2>2. ReceiptOK(c) /\ c.product \in Products /\ batches[c.product] \subseteq 1 .. MaxCalls
    BY <2>1 DEF CallOK, ReceiptOK, TypeOK
  <2>3. CallOK(Receipt("append", c.order, c.seen, c.no, c.received, c.delivery, c.product, batches[c.product]))
    BY <2>2, ReceiptIs DEF ReceiptOK
  <2>4. CallOK(Receipt("line", c.order, c.seen, c.no, c.received, c.delivery, NoProduct, {}))
    BY <2>2, ReceiptIs DEF ReceiptOK
  <2>5. CallsOK'
    BY <1>7, <2>3, <2>4, WentOK DEF ReadBatches
  <2>6. TypeOK'
    BY <1>7 DEF TypeOK, ReadBatches, desk, journal, flaws
  <2> QED BY <2>5, <2>6
<1>8. ASSUME NEW d \in Desks, AppendBatch(d) PROVE Types'
  <2> DEFINE c == call[d]
  <2>1. CallOK(c) /\ c.op = "receive" /\ c.step = "append"
    BY <1>8 DEF CallsOK, AppendBatch, At
  <2>2. ReceiptOK(c) /\ c.product \in Products
    BY <2>1 DEF CallOK, ReceiptOK
  <2>3. CallOK(Receipt("line", c.order, c.seen, c.no, c.received, c.delivery, NoProduct, {}))
    BY <2>2, ReceiptIs DEF ReceiptOK
  <2>4. CallsOK'
    BY <1>8, <2>3, WentOK DEF AppendBatch
  <2>5. c.had \cup {c.no} \in SUBSET (1 .. MaxCalls)
    BY <2>2 DEF ReceiptOK
  <2>6. batches' \in [Products -> SUBSET (1 .. MaxCalls)]
    BY <1>8, <2>2, <2>5 DEF AppendBatch, TypeOK
  <2>7. TypeOK'
    BY <1>8, <2>6 DEF TypeOK, AppendBatch, desk, flaws
  <2> QED BY <2>4, <2>7
<1>9. ASSUME NEW d \in Desks, PutOrder(d) PROVE Types'
  <2> DEFINE c == call[d]
             status == StatusAfter(c.order, c.received, c.seen.status)
  <2>1. CallOK(c) /\ c.op = "receive"
    BY <1>9 DEF CallsOK, PutOrder, At
  <2>2. ReceiptOK(c)
    BY <2>1 DEF CallOK
  <2>3. status \in Statuses \cup {"none"}
    BY <2>2 DEF ReceiptOK, Order, StatusAfter, Statuses
  <2>4. CallsOK'
    BY <1>9, IdleOK, WentOK DEF PutOrder, Ends
  <2>5. /\ c.order \in Orders /\ c.seen.reference \in Nat
        /\ c.received \in [Products -> Nat]
        /\ \A p \in Products : c.received[p] <= Ordered[c.order][p]
    BY <2>2 DEF ReceiptOK, Within, Order
  <2>6. orders' = [orders EXCEPT ![c.order] = [reference |-> c.seen.reference, status |-> status,
                                               received |-> c.received]]
    BY <1>9 DEF PutOrder
  <2> HIDE DEF status
  <2>7. /\ orders' \in [Orders -> [reference : Nat, status : Statuses \cup {"none"},
                                   received : [Products -> Nat]]]
        /\ \A o \in Orders, p \in Products : orders'[o].received[p] <= Ordered[o][p]
    BY <2>3, <2>5, <2>6 DEF TypeOK
  <2>8. marred' \subseteq Orders
    BY <1>9, <2>5 DEF PutOrder, TypeOK
  <2>9. TypeOK'
    BY <1>9, <2>7, <2>8 DEF TypeOK, PutOrder, journal
  <2> QED BY <2>4, <2>9
<1>10. ASSUME NEW d \in Desks, NEW p \in Products, NEW n \in 1 .. MaxUnits, TransferOut(d, p, n)
       PROVE  Types'
  <2>1. CallOK([op |-> "transfer", step |-> "in", product |-> p, units |-> n])
    BY DEF CallOK
  <2>2. CallsOK'
    BY <1>10, <2>1, WentOK DEF TransferOut
  <2>3. out' \in [Products -> Nat]
    <3>1. n \in Nat /\ out \in [Products -> Nat]
      BY DEF TypeOK
    <3> QED BY <1>10, <3>1, LeavesIs DEF TransferOut
  <2>4. TypeOK'
    BY <1>10, <2>3 DEF TypeOK, TransferOut, Begins, desk, flaws
  <2> QED BY <2>2, <2>4
<1>11. ASSUME NEW d \in Desks, TransferIn(d) PROVE Types'
  <2>1. CallOK(call[d]) /\ call[d].op = "transfer"
    BY <1>11 DEF CallsOK, TransferIn, At
  <2>2. in' \in [Products -> Nat]
    BY <1>11, <2>1, LeavesIs DEF TransferIn, TypeOK, CallOK
  <2>3. CallsOK'
    BY <1>11, IdleOK, WentOK DEF TransferIn, Ends
  <2>4. TypeOK'
    BY <1>11, <2>2 DEF TypeOK, TransferIn, desk, flaws
  <2> QED BY <2>3, <2>4
<1>12. ASSUME NEW d \in Desks, NEW l \in Deliveries, AddReturn(d, l) PROVE Types'
  <2>1. IsDelivery(l)
    BY DeliveriesAre
  <2>2. CallOK([op |-> "return", step |-> "line", delivery |-> l])
    BY <2>1 DEF CallOK
  <2>3. CallsOK'
    BY <1>12, <2>2, WentOK DEF AddReturn
  <2>4. returned' \in [Products -> Nat]
    BY <1>12, <2>1 DEF AddReturn, TypeOK, IsDelivery
  <2>5. TypeOK'
    BY <1>12, <2>4 DEF TypeOK, AddReturn, Begins, desk, flaws
  <2> QED BY <2>3, <2>5
<1>13. ASSUME NEW d \in Desks, NEW p \in Products, SendBack(d, p) PROVE Types'
  <2> DEFINE l == call[d].delivery
  <2>1. IsDelivery(l) /\ p \in DOMAIN l /\ l[p] \in Nat
    BY <1>13 DEF CallsOK, CallOK, SendBack, At, IsDelivery
  <2>2. CallOK([op |-> "return", step |-> "line", delivery |-> Without(l, p)])
    BY <2>1, WithoutIs DEF CallOK
  <2>3. CallsOK'
    BY <1>13, <2>2, IdleOK, WentOK DEF SendBack, Ends
  <2>4. sentBack' \in [Products -> Nat]
    BY <1>13, <2>1, LeavesIs DEF SendBack, TypeOK
  <2>5. TypeOK'
    BY <1>13, <2>4 DEF TypeOK, SendBack, desk, flaws
  <2> QED BY <2>3, <2>5
<1>14. ASSUME NEW d \in Desks, Interrupt(d) PROVE Types'
  <2>1. CallOK(call[d])
    BY DEF CallsOK
  <2>2. marred' \subseteq Orders
    BY <1>14, <2>1 DEF Interrupt, CallOK, ReceiptOK, TypeOK
  <2>3. halved' \subseteq Products
    BY <1>14, <2>1 DEF Interrupt, CallOK, IsDelivery, TypeOK
  <2>4. CallsOK'
    BY <1>14, IdleOK, WentOK DEF Interrupt, Ends
  <2>5. TypeOK'
    BY <1>14, <2>2, <2>3 DEF TypeOK, Interrupt, desk, journal
  <2> QED BY <2>4, <2>5
<1>15. ASSUME NEW o \in Orders, CancelOrder(o) PROVE Types'
  <2>1. /\ orders' \in [Orders -> [reference : Nat, status : Statuses \cup {"none"},
                                   received : [Products -> Nat]]]
        /\ \A q \in Orders : orders'[q].received = orders[q].received
    <3> DEFINE cancelled == [orders[o] EXCEPT !.status = "cancelled"]
    <3>1. orders \in [Orders -> Order]
      BY DEF TypeOK, Order
    <3>2. cancelled \in Order /\ cancelled.received = orders[o].received
      BY <3>1 DEF Order, Statuses
    <3>3. orders' = [orders EXCEPT ![o] = cancelled]
      BY <1>15 DEF CancelOrder
    <3> HIDE DEF cancelled
    <3>4. orders' \in [Orders -> Order] /\ \A q \in Orders : orders'[q].received = orders[q].received
      BY <3>1, <3>2, <3>3
    <3> QED BY <3>4 DEF Order
  <2>2. TypeOK'
    BY <1>15, <2>1 DEF CancelOrder, TypeOK, journal, flaws
  <2>3. CallsOK'
    BY <1>15 DEF CancelOrder, CallsOK
  <2> QED BY <2>2, <2>3
<1>16. ASSUME NEW p \in Products, RemoveProduct(p) PROVE Types'
  BY <1>16 DEF RemoveProduct, TypeOK, CallsOK, desk, journal, flaws
<1>17. CASE Pull
  BY <1>17 DEF Pull, TypeOK, CallsOK, desk, flaws
<1>18. CASE UNCHANGED vars
  BY <1>18 DEF vars, TypeOK, CallsOK
<1> QED
  BY <1>1, <1>2, <1>3, <1>4, <1>5, <1>6, <1>7, <1>8, <1>9, <1>10, <1>11, <1>12, <1>13, <1>14,
     <1>15, <1>16, <1>17, <1>18 DEF Next

(* Type correctness.  No line of an order is received beyond what was      *)
(* ordered, whatever arrives.                                              *)
THEOREM TypeCorrect == Spec => []TypeOK
<1>1. Spec => []Types
  BY TypesInit, TypesNext, PTL DEF Spec
<1> QED BY <1>1, PTL DEF Types

-------------------------------------------------------------------------------
(* Nothing is shown that was not booked *)

\* A receipt under way has counted no more than is booked by now, and the
\* batch it is at is of goods it has booked.
HonestCall(d) ==
  call[d].op = "receive" =>
    /\ \A p \in Products \ gone : call[d].received[p] <= booked[call[d].order][p]
    /\ call[d].step \in {"batch", "append"} /\ call[d].product \notin gone =>
         call[d].no \in arrived[call[d].product]
    /\ call[d].step = "append" /\ call[d].product \notin gone =>
         call[d].had \subseteq arrived[call[d].product]

Honest == \A d \in Desks : HonestCall(d)

BookedInv == NotOverstated /\ Honest

\* The journal only grows, and products only go.
Grows ==
  /\ gone \subseteq gone'
  /\ \A o \in Orders, p \in Products : booked[o][p] <= booked'[o][p]
  /\ \A p \in Products : arrived[p] \subseteq arrived'[p]

LEMMA SameGrows ==
  ASSUME Types, UNCHANGED <<gone, booked, arrived>>
  PROVE  Grows
BY DEF Grows, Types, TypeOK

LEMMA StaysHonest ==
  ASSUME Types, Types', Honest, Grows, NEW d \in Desks, call'[d] = call[d]
  PROVE  HonestCall(d)'
<1>1. HonestCall(d) /\ CallOK(call[d])
  BY DEF Honest, Types, CallsOK
<1>2. /\ booked \in [Orders -> [Products -> Nat]] /\ booked' \in [Orders -> [Products -> Nat]]
      /\ gone \subseteq gone'
      /\ \A o \in Orders, p \in Products : booked[o][p] <= booked'[o][p]
      /\ \A p \in Products : arrived[p] \subseteq arrived'[p]
  BY DEF Types, TypeOK, Grows
<1>3. SUFFICES ASSUME call[d].op = "receive"
               PROVE  /\ \A p \in Products \ gone' : call[d].received[p] <= booked'[call[d].order][p]
                      /\ call[d].step \in {"batch", "append"} /\ call[d].product \notin gone' =>
                           call[d].no \in arrived'[call[d].product]
                      /\ call[d].step = "append" /\ call[d].product \notin gone' =>
                           call[d].had \subseteq arrived'[call[d].product]
  BY DEF HonestCall
<1>4. ReceiptOK(call[d])
  BY <1>1, <1>3 DEF CallOK
<1>5. ASSUME NEW p \in Products \ gone'
      PROVE  call[d].received[p] <= booked'[call[d].order][p]
  <2>1. call[d].order \in Orders /\ call[d].received[p] \in Nat
    BY <1>4 DEF ReceiptOK, Within
  <2>2. call[d].received[p] <= booked[call[d].order][p]
    BY <1>1, <1>2, <1>3 DEF HonestCall
  <2> QED BY <1>2, <2>1, <2>2
<1>6. call[d].step \in {"batch", "append"} => call[d].product \in Products
  BY <1>4 DEF ReceiptOK
<1> QED BY <1>1, <1>2, <1>3, <1>5, <1>6 DEF HonestCall

LEMMA StaysShown ==
  ASSUME Types, Types', NotOverstated, Grows,
         \A o \in Orders : orders'[o].received = orders[o].received,
         \A p \in Products : batches'[p] \subseteq batches[p]
  PROVE  NotOverstated'
<1>1. /\ booked \in [Orders -> [Products -> Nat]] /\ booked' \in [Orders -> [Products -> Nat]]
      /\ \A o \in Orders, p \in Products : orders[o].received[p] \in Nat
  BY DEF Types, TypeOK
<1>2. \A o \in Orders, p \in Products \ gone' : orders[o].received[p] <= booked'[o][p]
  BY <1>1 DEF NotOverstated, Grows
<1> QED BY <1>2 DEF NotOverstated, Grows

\* A step of a tab that leaves orders, batches and journal alone.
LEMMA QuietStep ==
  ASSUME Types, Types', BookedInv, UNCHANGED <<gone, booked, arrived, batches>>,
         \A o \in Orders : orders'[o].received = orders[o].received,
         NEW d \in Desks, HonestCall(d)',
         \A t \in Desks : t # d => call'[t] = call[t]
  PROVE  BookedInv'
<1>1. Grows
  BY SameGrows
<1>2. NotOverstated'
  BY <1>1, StaysShown DEF BookedInv
<1>3. Honest'
  BY <1>1, StaysHonest DEF BookedInv, Honest
<1> QED BY <1>2, <1>3 DEF BookedInv

LEMMA IdleIsHonest ==
  ASSUME NEW d \in Desks, call'[d].op # "receive"
  PROVE  HonestCall(d)'
BY DEF HonestCall

LEMMA BookedInit == Init => BookedInv
<1> SUFFICES ASSUME Init PROVE BookedInv
  OBVIOUS
<1>1. NotOverstated
  BY DEF Init, NotOverstated, NoOrder, Nothing
<1>2. Honest
  BY DEF Init, Honest, HonestCall, Idle
<1> QED BY <1>1, <1>2 DEF BookedInv

LEMMA BookedNext == Types /\ Types' /\ BookedInv /\ [Next]_vars => BookedInv'
<1> SUFFICES ASSUME Types, Types', BookedInv, [Next]_vars PROVE BookedInv'
  OBVIOUS
<1>0. CallsOK /\ \A d \in Desks : CallOK(call[d])
  BY DEF Types, CallsOK
<1>1. ASSUME NEW d \in Desks, NEW o \in Orders, ReadSequence(d, o) PROVE BookedInv'
  BY <1>0, <1>1, Went, IdleIsHonest, QuietStep DEF ReadSequence, desk, journal
<1>2. ASSUME NEW d \in Desks, WriteSequence(d) PROVE BookedInv'
  BY <1>0, <1>2, Went, IdleIsHonest, QuietStep DEF WriteSequence, journal
<1>3. ASSUME NEW d \in Desks, NEW status \in {"draft", "ordered"}, AddOrder(d, status)
      PROVE  BookedInv'
  <2>1. Grows
    BY <1>3, SameGrows DEF AddOrder, journal
  <2>2. orders \in [Orders -> Order] /\ call[d].order \in Orders
    BY <1>0, <1>3 DEF Types, TypeOK, Order, AddOrder, At, CallOK
  <2>3. \A o \in Orders : orders'[o].received = IF o = call[d].order THEN Nothing ELSE orders[o].received
    BY <1>3, <2>2 DEF AddOrder
  <2>4. booked \in [Orders -> [Products -> Nat]]
    BY DEF Types, TypeOK
  <2>5. NotOverstated'
    BY <1>3, <2>3, <2>4 DEF AddOrder, journal, BookedInv, NotOverstated, Nothing
  <2>6. call'[d] = Idle /\ \A t \in Desks : t # d => call'[t] = call[t]
    BY <1>0, <1>3, Went DEF AddOrder, Ends
  <2>7. Honest'
    BY <2>1, <2>6, StaysHonest, IdleIsHonest DEF BookedInv, Honest, Idle
  <2> QED BY <2>5, <2>7 DEF BookedInv
<1>4. ASSUME NEW d \in Desks, NEW o \in Orders, NEW l \in Deliveries, GetOrder(d, o, l)
      PROVE  BookedInv'
  <2>1. /\ call'[d] = Receipt("line", o, orders[o], begun', orders[o].received, l, NoProduct, {})
        /\ \A t \in Desks : t # d => call'[t] = call[t]
    BY <1>0, <1>4, Went DEF GetOrder
  <2>2. HonestCall(d)'
    BY <1>4, <2>1 DEF HonestCall, Receipt, GetOrder, BookedInv, NotOverstated, desk, journal
  <2> QED BY <1>4, <2>1, <2>2, QuietStep DEF GetOrder, desk, journal
<1>5. ASSUME NEW d \in Desks, NEW p \in Products, BookLine(d, p) PROVE BookedInv'
  <2> DEFINE c == call[d]
             o == c.order
             n == c.delivery[p]
             counted == [c.received EXCEPT ![p] = Counted(o, p, @, n)]
  <2>1. /\ c.op = "receive" /\ p \in DOMAIN c.delivery
        /\ Journal(o, p, c)
        /\ UNCHANGED <<orders, batches, gone>>
        /\ call'[d] = Receipt("batch", o, c.seen, c.no, counted, Without(c.delivery, p), p, {})
        /\ \A t \in Desks : t # d => call'[t] = call[t]
    BY <1>0, <1>5, Went DEF BookLine, At, desk
  <2>2. /\ o \in Orders /\ n \in Nat /\ c.received \in [Products -> Nat]
        /\ booked \in [Orders -> [Products -> Nat]]
        /\ arrived \in [Products -> SUBSET (1 .. MaxCalls)]
    BY <1>0, <2>1 DEF CallOK, ReceiptOK, Within, IsDelivery, Types, TypeOK
  <2>3. \A q \in Products \ gone : c.received[q] <= booked[o][q]
    BY <2>1 DEF BookedInv, Honest, HonestCall
  <2>4. CASE p \in gone
    <3>1. UNCHANGED <<booked, arrived>>
      BY <2>1, <2>4 DEF Journal
    <3>2. HonestCall(d)'
      BY <2>1, <2>2, <2>3, <2>4, <3>1 DEF HonestCall, Receipt
    <3> QED BY <2>1, <3>1, <3>2, QuietStep
  <2>5. CASE p \notin gone
    <3>1. booked' = [booked EXCEPT ![o][p] = @ + n] /\ arrived' = [arrived EXCEPT ![p] = @ \cup {c.no}]
      BY <2>1, <2>5 DEF Journal
    <3>2. /\ booked'[o][p] = booked[o][p] + n
          /\ \A q \in Orders, r \in Products : booked[q][r] <= booked'[q][r]
          /\ c.no \in arrived'[p]
          /\ \A r \in Products : arrived[r] \subseteq arrived'[r]
      BY <2>2, <3>1
    <3>3. Grows
      BY <2>1, <3>2 DEF Grows
    <3>4. NotOverstated'
      BY <2>1, <3>3, StaysShown DEF BookedInv
    <3>5. Counted(o, p, c.received[p], n) <= booked'[o][p]
      <4>1. Counted(o, p, c.received[p], n) \in Nat /\ Counted(o, p, c.received[p], n) <= c.received[p] + n
        BY <2>2, CountedIs
      <4> QED BY <2>2, <2>3, <2>5, <3>2, <4>1
    <3>6. ASSUME NEW q \in Products \ gone PROVE counted[q] <= booked'[o][q]
      <4>1. CASE q = p
        BY <2>2, <3>5, <4>1
      <4>2. CASE q # p
        <5>1. counted[q] = c.received[q] /\ booked[o][q] \in Nat /\ booked'[o][q] \in Nat
          BY <2>2, <4>2 DEF Types, TypeOK
        <5> QED BY <2>2, <2>3, <3>2, <5>1
      <4> QED BY <4>1, <4>2
    <3>7. HonestCall(d)'
      <4> HIDE DEF counted
      <4> QED BY <2>1, <3>2, <3>6 DEF HonestCall, Receipt
    <3>8. Honest'
      BY <2>1, <3>3, <3>7, StaysHonest DEF BookedInv, Honest
    <3> QED BY <3>4, <3>8 DEF BookedInv
  <2> QED BY <2>4, <2>5
<1>6. ASSUME NEW d \in Desks, NEW p \in Products, SkipLine(d, p) PROVE BookedInv'
  <2> DEFINE c == call[d]
  <2>1. /\ c.op = "receive"
        /\ UNCHANGED <<orders, batches, gone, booked, arrived>>
        /\ call'[d] = Receipt("line", c.order, c.seen, c.no, c.received, Without(c.delivery, p), NoProduct, {})
        /\ \A t \in Desks : t # d => call'[t] = call[t]
    BY <1>0, <1>6, Went DEF SkipLine, At, desk, journal
  <2>2. HonestCall(d)'
    BY <2>1 DEF HonestCall, Receipt, BookedInv, Honest
  <2> QED BY <2>1, <2>2, QuietStep
<1>7. ASSUME NEW d \in Desks, NEW named \in BOOLEAN, ReadBatches(d, named) PROVE BookedInv'
  <2> DEFINE c == call[d]
  <2>1. /\ c.op = "receive" /\ c.step = "batch"
        /\ UNCHANGED <<orders, batches, gone, booked, arrived>>
        /\ \A t \in Desks : t # d => call'[t] = call[t]
        /\ \/ /\ c.product \notin gone
              /\ call'[d] = Receipt("append", c.order, c.seen, c.no, c.received, c.delivery,
                                    c.product, batches[c.product])
           \/ call'[d] = Receipt("line", c.order, c.seen, c.no, c.received, c.delivery, NoProduct, {})
    BY <1>0, <1>7, Went DEF ReadBatches, At, desk, journal
  <2>2. c.product \in Products
    BY <1>0, <2>1 DEF CallOK, ReceiptOK
  <2>3. HonestCall(d)'
    BY <2>1, <2>2 DEF HonestCall, Receipt, BookedInv, Honest, NotOverstated
  <2> QED BY <2>1, <2>3, QuietStep
<1>8. ASSUME NEW d \in Desks, AppendBatch(d) PROVE BookedInv'
  <2> DEFINE c == call[d]
  <2>1. /\ c.op = "receive" /\ c.step = "append"
        /\ UNCHANGED <<orders, gone, booked, arrived>>
        /\ batches' = IF c.product \in gone THEN batches
                      ELSE [batches EXCEPT ![c.product] = c.had \cup {c.no}]
        /\ call'[d] = Receipt("line", c.order, c.seen, c.no, c.received, c.delivery, NoProduct, {})
        /\ \A t \in Desks : t # d => call'[t] = call[t]
    BY <1>0, <1>8, Went DEF AppendBatch, At, desk
  <2>2. c.product \in Products /\ batches \in [Products -> SUBSET (1 .. MaxCalls)]
    BY <1>0, <2>1 DEF CallOK, ReceiptOK, Types, TypeOK
  <2>3. HonestCall(d) /\ NotOverstated
    BY DEF BookedInv, Honest
  <2>4. \A p \in Products : batches'[p] \subseteq arrived'[p]
    BY <2>1, <2>2, <2>3 DEF HonestCall, NotOverstated
  <2>5. NotOverstated'
    BY <2>1, <2>3, <2>4 DEF NotOverstated
  <2>6. HonestCall(d)'
    BY <2>1, <2>3 DEF HonestCall, Receipt
  <2>7. Grows
    BY <2>1, SameGrows
  <2>8. Honest'
    BY <2>1, <2>6, <2>7, StaysHonest DEF BookedInv, Honest
  <2> QED BY <2>5, <2>8 DEF BookedInv
<1>9. ASSUME NEW d \in Desks, PutOrder(d) PROVE BookedInv'
  <2> DEFINE c == call[d]
             put == [reference |-> c.seen.reference,
                     status |-> StatusAfter(c.order, c.received, c.seen.status),
                     received |-> c.received]
  <2>1. /\ c.op = "receive"
        /\ UNCHANGED <<gone, booked, arrived, batches>>
        /\ orders' = [orders EXCEPT ![c.order] = put]
        /\ call'[d] = Idle /\ \A t \in Desks : t # d => call'[t] = call[t]
    BY <1>0, <1>9, Went DEF PutOrder, At, journal, Ends
  <2>2. HonestCall(d) /\ NotOverstated
    BY DEF BookedInv, Honest
  <2>3. c.order \in Orders /\ orders \in [Orders -> Order] /\ put.received = c.received
    BY <1>0, <2>1 DEF CallOK, ReceiptOK, Types, TypeOK, Order
  <2> HIDE DEF put
  <2>4. NotOverstated'
    BY <2>1, <2>2, <2>3 DEF NotOverstated, HonestCall
  <2>5. Grows
    BY <2>1, SameGrows
  <2>6. Honest'
    BY <2>1, <2>5, StaysHonest, IdleIsHonest DEF BookedInv, Honest, Idle
  <2> QED BY <2>4, <2>6 DEF BookedInv
<1>10. ASSUME NEW d \in Desks, NEW p \in Products, NEW n \in 1 .. MaxUnits, TransferOut(d, p, n)
       PROVE  BookedInv'
  BY <1>0, <1>10, Went, IdleIsHonest, QuietStep DEF TransferOut, desk
<1>11. ASSUME NEW d \in Desks, TransferIn(d) PROVE BookedInv'
  BY <1>0, <1>11, Went, IdleIsHonest, QuietStep DEF TransferIn, desk, Ends, Idle
<1>12. ASSUME NEW d \in Desks, NEW l \in Deliveries, AddReturn(d, l) PROVE BookedInv'
  BY <1>0, <1>12, Went, IdleIsHonest, QuietStep DEF AddReturn, desk
<1>13. ASSUME NEW d \in Desks, NEW p \in Products, SendBack(d, p) PROVE BookedInv'
  BY <1>0, <1>13, Went, IdleIsHonest, QuietStep DEF SendBack, desk, Ends, Idle
<1>14. ASSUME NEW d \in Desks, Interrupt(d) PROVE BookedInv'
  BY <1>0, <1>14, Went, IdleIsHonest, QuietStep DEF Interrupt, desk, journal, Ends, Idle
<1>15. ASSUME NEW o \in Orders, CancelOrder(o) PROVE BookedInv'
  <2>1. \A q \in Orders : orders'[q].received = orders[q].received
    BY <1>15 DEF CancelOrder, Types, TypeOK
  <2>2. Grows
    BY <1>15, SameGrows DEF CancelOrder, journal
  <2>3. NotOverstated'
    BY <1>15, <2>1, <2>2, StaysShown DEF CancelOrder, journal, BookedInv
  <2>4. Honest'
    BY <1>15, <2>2, StaysHonest DEF CancelOrder, BookedInv, Honest
  <2> QED BY <2>3, <2>4 DEF BookedInv
<1>16. ASSUME NEW p \in Products, RemoveProduct(p) PROVE BookedInv'
  <2>1. Grows
    BY <1>16 DEF RemoveProduct, journal, Grows, Types, TypeOK
  <2>2. NotOverstated'
    BY <1>16, <2>1, StaysShown DEF RemoveProduct, desk, journal, BookedInv
  <2>3. Honest'
    BY <1>16, <2>1, StaysHonest DEF RemoveProduct, BookedInv, Honest
  <2> QED BY <2>2, <2>3 DEF BookedInv
<1>17. CASE Pull
  <2>1. Grows
    BY <1>17, SameGrows DEF Pull
  <2>2. NotOverstated'
    BY <1>17, <2>1, StaysShown DEF Pull, desk, BookedInv
  <2>3. Honest'
    BY <1>17, <2>1, StaysHonest DEF Pull, BookedInv, Honest
  <2> QED BY <2>2, <2>3 DEF BookedInv
<1>18. CASE UNCHANGED vars
  BY <1>18 DEF vars, BookedInv, NotOverstated, Honest, HonestCall
<1> QED
  BY <1>1, <1>2, <1>3, <1>4, <1>5, <1>6, <1>7, <1>8, <1>9, <1>10, <1>11, <1>12, <1>13, <1>14,
     <1>15, <1>16, <1>17, <1>18 DEF Next

(* receiveGoods: neither the progress of an order nor a batch on a product *)
(* tells of goods that were not booked, for any number of tabs and however *)
(* receipts are cut short or overwrite each other.                         *)
THEOREM NothingOverstated == Spec => []NotOverstated
<1>1. Spec => []Types
  BY TypesInit, TypesNext, PTL DEF Spec
<1>2. Spec => []BookedInv
  BY <1>1, BookedInit, BookedNext, PTL DEF Spec
<1> QED BY <1>2, PTL DEF BookedInv

-------------------------------------------------------------------------------
(* Statuses and reference numbers *)

\* What a receipt has read is an order that was created, under the number it
\* still has, and it has only counted up from there.
SeenOK(d) ==
  call[d].op = "receive" =>
    LET c == call[d] IN
    /\ orders[c.order] # NoOrder
    /\ c.seen.status # "none" /\ c.seen.reference = orders[c.order].reference
    /\ Tells(c.order, c.seen)
    /\ \A p \in Products : c.seen.received[p] <= c.received[p]

\* An order is made by one call, which is the only one.
FilingOK(d) ==
  call[d].op = "create" =>
    /\ orders[call[d].order] = NoOrder
    /\ \A t \in Desks : t # d /\ call[t].op = "create" => call[t].order # call[d].order

Filed == \A o \in Orders : orders[o] # NoOrder => orders[o].status # "none"

\* Numbers that were given out are behind the sequence, and none is there twice.
Numbered ==
  /\ \A o \in Created : orders[o].reference <= sequence
  /\ \A o, q \in Created : o # q => orders[o].reference # orders[q].reference
  /\ \A d \in Desks : At(d, "create", "number") => call[d].seen <= sequence
  /\ \A d \in Desks : At(d, "create", "add") =>
       /\ call[d].number <= sequence
       /\ \A o \in Created : orders[o].reference # call[d].number
       /\ \A t \in Desks : t # d /\ At(t, "create", "add") => call[t].number # call[d].number

DeskInv ==
  /\ StatusTellsLines /\ Filed
  /\ \A d \in Desks : SeenOK(d) /\ FilingOK(d)
  /\ ~raced => Numbered

\* A step of a tab that is not about the making of an order, nor puts one.
LEMMA QuietDesk ==
  ASSUME DeskInv, UNCHANGED <<orders, sequence, raced>>,
         NEW d \in Desks, SeenOK(d)', call'[d].op # "create",
         \A t \in Desks : t # d => call'[t] = call[t]
  PROVE  DeskInv'
<1>1. StatusTellsLines' /\ Filed'
  BY DEF DeskInv, StatusTellsLines, Filed, Created
<1>2. \A t \in Desks : SeenOK(t)' /\ FilingOK(t)'
  BY DEF DeskInv, SeenOK, FilingOK
<1>3. ~raced' => Numbered'
  BY DEF DeskInv, Numbered, Created, At
<1> QED BY <1>1, <1>2, <1>3 DEF DeskInv

LEMMA IdleHasSeen ==
  ASSUME NEW d \in Desks, call'[d].op # "receive"
  PROVE  SeenOK(d)'
BY DEF SeenOK

LEMMA DeskInit == Init => DeskInv
BY DEF Init, DeskInv, StatusTellsLines, Created, Filed, SeenOK, FilingOK, Numbered, Idle, At

\* An order that is put says in its status what its lines say.
LEMMA PutTells ==
  ASSUME NEW c, ReceiptOK(c), Tells(c.order, c.seen),
         \A p \in Products : c.seen.received[p] <= c.received[p]
  PROVE  Tells(c.order, [reference |-> c.seen.reference,
                         status    |-> StatusAfter(c.order, c.received, c.seen.status),
                         received  |-> c.received])
<1> DEFINE all == \A p \in Products : c.received[p] >= Ordered[c.order][p]
           any == \E p \in Products : c.received[p] > 0
<1>1. /\ c.order \in Orders
      /\ c.received \in [Products -> Nat] /\ c.seen.received \in [Products -> Nat]
      /\ Ordered[c.order] \in [Products -> Nat]
      /\ \A p \in Products : c.received[p] <= Ordered[c.order][p]
      /\ \A p \in Products : c.seen.received[p] <= Ordered[c.order][p]
  BY DEF ReceiptOK, Within
<1>2. all <=> \A p \in Products : c.received[p] = Ordered[c.order][p]
  <2>1. \A p \in Products : c.received[p] \in Nat /\ Ordered[c.order][p] \in Nat
    BY <1>1
  <2>2. ASSUME NEW p \in Products
        PROVE  c.received[p] >= Ordered[c.order][p] <=> c.received[p] = Ordered[c.order][p]
    <3> DEFINE m == c.received[p]
               n == Ordered[c.order][p]
    <3>1. m \in Nat /\ n \in Nat /\ m <= n
      BY <1>1, <2>1
    <3> HIDE DEF m, n
    <3>2. m >= n <=> m = n
      BY <3>1
    <3> QED BY <3>2 DEF m, n
  <2> QED BY <2>2
<1>3. CASE all
  BY <1>2, <1>3 DEF Tells, StatusAfter
<1>4. CASE ~all /\ any
  BY <1>2, <1>4 DEF Tells, StatusAfter
<1>5. CASE ~all /\ ~any
  <2>1. c.received = Nothing
    BY <1>1, <1>5 DEF Nothing
  <2>2. ~ \A p \in Products : c.seen.received[p] = Ordered[c.order][p]
    BY <1>1, <1>5
  <2>3. c.seen.status # "received"
    BY <2>2 DEF Tells
  <2> QED BY <1>2, <1>5, <2>1, <2>3 DEF Tells, StatusAfter
<1> QED BY <1>3, <1>4, <1>5

LEMMA PutIsFiled ==
  ASSUME NEW o, NEW received, NEW before, before # "none"
  PROVE  StatusAfter(o, received, before) # "none"
BY DEF StatusAfter

LEMMA DeskNext == Types /\ DeskInv /\ [Next]_vars => DeskInv'
<1> SUFFICES ASSUME Types, DeskInv, [Next]_vars PROVE DeskInv'
  OBVIOUS
<1>0. CallsOK /\ \A d \in Desks : CallOK(call[d]) /\ SeenOK(d) /\ FilingOK(d)
  BY DEF Types, CallsOK, DeskInv
<1>1. ASSUME NEW d \in Desks, NEW o \in Orders, ReadSequence(d, o) PROVE DeskInv'
  <2>1. /\ UNCHANGED <<orders, sequence, raced>> /\ orders[o] = NoOrder
        /\ \A t \in Desks : call[t].op = "create" => call[t].order # o
        /\ call'[d] = [op |-> "create", step |-> "number", order |-> o, seen |-> sequence]
        /\ \A t \in Desks : t # d => call'[t] = call[t]
    BY <1>0, <1>1, Went DEF ReadSequence, desk, flaws, Created
  <2>2. StatusTellsLines' /\ Filed'
    BY <2>1 DEF DeskInv, StatusTellsLines, Filed, Created
  <2>3. \A t \in Desks : SeenOK(t)' /\ FilingOK(t)'
    BY <1>0, <2>1 DEF SeenOK, FilingOK
  <2>4. ASSUME ~raced' PROVE Numbered'
    <3>1. Numbered /\ sequence \in Nat /\ Created' = Created
      BY <2>1, <2>4 DEF DeskInv, Types, TypeOK, Created
    <3>2. \A t \in Desks : t # d => /\ At(t, "create", "number")' = At(t, "create", "number")
                                    /\ At(t, "create", "add")' = At(t, "create", "add")
      BY <2>1 DEF At
    <3>3. ~At(d, "create", "add")' /\ call'[d].seen <= sequence
      BY <2>1, <3>1 DEF At
    <3> QED BY <2>1, <3>1, <3>2, <3>3 DEF Numbered
  <2> QED BY <2>2, <2>3, <2>4 DEF DeskInv
<1>2. ASSUME NEW d \in Desks, WriteSequence(d) PROVE DeskInv'
  <2> DEFINE c == call[d]
  <2>1. /\ UNCHANGED orders /\ c.op = "create" /\ c.step = "number"
        /\ sequence' = c.seen + 1 /\ (~raced' => ~raced /\ sequence = c.seen)
        /\ call'[d] = [op |-> "create", step |-> "add", order |-> c.order, number |-> sequence']
        /\ \A t \in Desks : t # d => call'[t] = call[t]
    BY <1>0, <1>2, Went DEF WriteSequence, At, NextNumber
  <2>2. StatusTellsLines' /\ Filed'
    BY <2>1 DEF DeskInv, StatusTellsLines, Filed, Created
  <2>3. \A t \in Desks : SeenOK(t)' /\ FilingOK(t)'
    BY <1>0, <2>1 DEF SeenOK, FilingOK
  <2>4. ASSUME ~raced' PROVE Numbered'
    <3>1. Numbered /\ sequence \in Nat /\ sequence' = sequence + 1
      BY <2>1, <2>4 DEF DeskInv, Types, TypeOK
    <3>2. \A o \in Created : orders[o].reference \in Nat
      BY DEF Types, TypeOK, Created
    <3>3. \A t \in Desks : /\ At(t, "create", "number") => call[t].seen \in Nat
                           /\ At(t, "create", "add") => call[t].number \in Nat
      BY <1>0 DEF CallOK, At
    <3>4. /\ \A o \in Created : orders[o].reference <= sequence' /\ orders[o].reference # sequence'
          /\ \A t \in Desks : At(t, "create", "number") => call[t].seen <= sequence'
          /\ \A t \in Desks : At(t, "create", "add") =>
                                call[t].number <= sequence' /\ call[t].number # sequence'
      BY <3>1, <3>2, <3>3 DEF Numbered
    <3>5. \A t \in Desks : t # d => /\ At(t, "create", "number")' = At(t, "create", "number")
                                    /\ At(t, "create", "add")' = At(t, "create", "add")
      BY <2>1 DEF At
    <3>6. ~At(d, "create", "number")' /\ At(d, "create", "add")' /\ call'[d].number = sequence'
      BY <2>1 DEF At
    <3>7. Created' = Created
      BY <2>1 DEF Created
    <3> QED BY <2>1, <3>1, <3>4, <3>5, <3>6, <3>7 DEF Numbered
  <2> QED BY <2>2, <2>3, <2>4 DEF DeskInv
<1>3. ASSUME NEW d \in Desks, NEW status \in {"draft", "ordered"}, AddOrder(d, status)
      PROVE  DeskInv'
  <2> DEFINE c == call[d]
             new == [reference |-> c.number, status |-> status, received |-> Nothing]
  <2>1. /\ UNCHANGED <<sequence, raced>> /\ c.op = "create" /\ c.step = "add"
        /\ orders' = [orders EXCEPT ![c.order] = new]
        /\ call'[d] = Idle /\ \A t \in Desks : t # d => call'[t] = call[t]
    BY <1>0, <1>3, Went DEF AddOrder, At, flaws, Ends
  <2>2. c.order \in Orders /\ orders \in [Orders -> Order] /\ orders[c.order] = NoOrder
    BY <1>0, <2>1 DEF CallOK, Types, TypeOK, Order, FilingOK
  <2>3. /\ new.reference = c.number /\ new.received = Nothing
        /\ new.status \in {"draft", "ordered"} /\ new # NoOrder
        /\ Tells(c.order, new)
    BY DEF NoOrder, Tells
  <2> HIDE DEF new
  <2>4. /\ orders'[c.order] = new
        /\ \A o \in Orders : o # c.order => orders'[o] = orders[o]
        /\ Created' = Created \cup {c.order}
    BY <2>1, <2>2, <2>3 DEF Created
  <2>5. StatusTellsLines' /\ Filed'
    BY <2>2, <2>3, <2>4 DEF DeskInv, StatusTellsLines, Filed, Created
  <2>6. ASSUME NEW t \in Desks PROVE SeenOK(t)' /\ FilingOK(t)'
    <3>1. CASE t = d
      BY <2>1, <3>1 DEF SeenOK, FilingOK, Idle
    <3>2. CASE t # d
      <4>1. call'[t] = call[t] /\ SeenOK(t) /\ FilingOK(t) /\ CallOK(call[t])
        BY <1>0, <2>1, <3>2
      <4>2. call[t].op = "receive" => call[t].order \in Orders /\ call[t].order # c.order
        BY <2>2, <4>1 DEF SeenOK, CallOK, ReceiptOK
      <4>3. call[t].op = "create" => call[t].order \in Orders /\ call[t].order # c.order
        BY <2>1, <3>2, <4>1 DEF FilingOK, CallOK
      <4>4. SeenOK(t)'
        BY <2>4, <4>1, <4>2 DEF SeenOK
      <4>5. FilingOK(t)'
        BY <2>1, <2>4, <4>1, <4>3 DEF FilingOK, Idle
      <4> QED BY <4>4, <4>5
    <3> QED BY <3>1, <3>2
  <2>7. ASSUME ~raced' PROVE Numbered'
    <3>1. Numbered /\ At(d, "create", "add")
      BY <2>1, <2>7 DEF DeskInv, At
    <3>2. \A t \in Desks : /\ At(t, "create", "number")' => At(t, "create", "number") /\ t # d
                           /\ At(t, "create", "add")' => At(t, "create", "add") /\ t # d
      BY <2>1 DEF At, Idle
    <3>3. Created \subseteq Orders /\ c.order \notin Created
      BY <2>2 DEF Created
    <3>4. \A o \in Created : orders'[o] = orders[o]
      BY <2>4, <3>3
    <3>5. orders'[c.order].reference = c.number /\ c.number <= sequence
          /\ \A o \in Created : orders[o].reference # c.number
      BY <2>3, <2>4, <3>1 DEF Numbered
    <3>6. /\ \A o \in Created' : orders'[o].reference <= sequence'
          /\ \A o, q \in Created' : o # q => orders'[o].reference # orders'[q].reference
      BY <2>1, <2>4, <3>1, <3>4, <3>5 DEF Numbered
    <3>7. \A t \in Desks : At(t, "create", "add")' =>
            \A o \in Created' : orders'[o].reference # call'[t].number
      BY <2>1, <2>4, <3>1, <3>2, <3>4, <3>5 DEF Numbered
    <3> QED BY <2>1, <3>1, <3>2, <3>6, <3>7 DEF Numbered
  <2> QED BY <2>5, <2>6, <2>7 DEF DeskInv
<1>4. ASSUME NEW d \in Desks, NEW o \in Orders, NEW l \in Deliveries, GetOrder(d, o, l)
      PROVE  DeskInv'
  <2>1. /\ UNCHANGED <<orders, sequence, raced>> /\ o \in Created
        /\ call'[d] = Receipt("line", o, orders[o], begun', orders[o].received, l, NoProduct, {})
        /\ \A t \in Desks : t # d => call'[t] = call[t]
    BY <1>0, <1>4, Went DEF GetOrder, desk, flaws
  <2>2. \A p \in Products : orders[o].received[p] <= orders[o].received[p]
    BY DEF Types, TypeOK
  <2>3. SeenOK(d)'
    BY <2>1, <2>2 DEF SeenOK, Receipt, DeskInv, StatusTellsLines, Filed, Created
  <2>4. call'[d].op # "create"
    BY <2>1 DEF Receipt
  <2> QED BY <2>1, <2>3, <2>4, QuietDesk
<1>5. ASSUME NEW d \in Desks, NEW p \in Products, BookLine(d, p) PROVE DeskInv'
  <2> DEFINE c == call[d]
             counted == [c.received EXCEPT ![p] = Counted(c.order, p, @, c.delivery[p])]
  <2>1. /\ UNCHANGED <<orders, sequence, raced>> /\ c.op = "receive" /\ p \in DOMAIN c.delivery
        /\ call'[d] = Receipt("batch", c.order, c.seen, c.no, counted, Without(c.delivery, p), p, {})
        /\ \A t \in Desks : t # d => call'[t] = call[t]
    BY <1>0, <1>5, Went DEF BookLine, At, desk, flaws
  <2>2. ReceiptOK(c) /\ SeenOK(d)
    BY <1>0, <2>1 DEF CallOK
  <2>3. \A q \in Products : c.received[q] <= counted[q]
    <3>1. /\ c.order \in Orders /\ c.delivery[p] \in Nat /\ c.received \in [Products -> Nat]
          /\ c.received[p] <= Ordered[c.order][p]
      BY <2>1, <2>2 DEF ReceiptOK, Within, IsDelivery
    <3>2. c.received[p] <= Counted(c.order, p, c.received[p], c.delivery[p])
      BY <3>1, CountedIs
    <3> QED BY <3>1, <3>2
  <2>4. /\ c.received \in [Products -> Nat] /\ c.seen.received \in [Products -> Nat]
        /\ \A q \in Products : counted[q] \in Nat
    <3>1. /\ c.order \in Orders /\ c.delivery[p] \in Nat /\ c.received \in [Products -> Nat]
      BY <2>1, <2>2 DEF ReceiptOK, Within, IsDelivery
    <3>2. Counted(c.order, p, c.received[p], c.delivery[p]) \in Nat
      BY <3>1, CountedIs
    <3> QED BY <2>2, <3>1, <3>2 DEF ReceiptOK, Within
  <2> HIDE DEF counted
  <2>5. \A q \in Products : c.seen.received[q] <= counted[q]
    BY <2>1, <2>2, <2>3, <2>4 DEF SeenOK
  <2>6. SeenOK(d)'
    BY <2>1, <2>2, <2>5 DEF SeenOK, Receipt
  <2>7. call'[d].op # "create"
    BY <2>1 DEF Receipt
  <2> QED BY <2>1, <2>6, <2>7, QuietDesk
<1>6. ASSUME NEW d \in Desks, NEW p \in Products, SkipLine(d, p) PROVE DeskInv'
  <2> DEFINE c == call[d]
  <2>1. /\ UNCHANGED <<orders, sequence, raced>> /\ c.op = "receive"
        /\ call'[d] = Receipt("line", c.order, c.seen, c.no, c.received, Without(c.delivery, p), NoProduct, {})
        /\ \A t \in Desks : t # d => call'[t] = call[t]
    BY <1>0, <1>6, Went DEF SkipLine, At, desk, flaws
  <2>2. SeenOK(d)' /\ call'[d].op # "create"
    BY <1>0, <2>1 DEF SeenOK, Receipt
  <2> QED BY <2>1, <2>2, QuietDesk
<1>7. ASSUME NEW d \in Desks, NEW named \in BOOLEAN, ReadBatches(d, named) PROVE DeskInv'
  <2> DEFINE c == call[d]
  <2>1. /\ UNCHANGED <<orders, sequence, raced>> /\ c.op = "receive"
        /\ \A t \in Desks : t # d => call'[t] = call[t]
        /\ \/ call'[d] = Receipt("append", c.order, c.seen, c.no, c.received, c.delivery,
                                 c.product, batches[c.product])
           \/ call'[d] = Receipt("line", c.order, c.seen, c.no, c.received, c.delivery, NoProduct, {})
    BY <1>0, <1>7, Went DEF ReadBatches, At, desk, flaws
  <2>2. SeenOK(d)' /\ call'[d].op # "create"
    BY <1>0, <2>1 DEF SeenOK, Receipt
  <2> QED BY <2>1, <2>2, QuietDesk
<1>8. ASSUME NEW d \in Desks, AppendBatch(d) PROVE DeskInv'
  <2> DEFINE c == call[d]
  <2>1. /\ UNCHANGED <<orders, sequence, raced>> /\ c.op = "receive"
        /\ call'[d] = Receipt("line", c.order, c.seen, c.no, c.received, c.delivery, NoProduct, {})
        /\ \A t \in Desks : t # d => call'[t] = call[t]
    BY <1>0, <1>8, Went DEF AppendBatch, At, desk, flaws
  <2>2. SeenOK(d)' /\ call'[d].op # "create"
    BY <1>0, <2>1 DEF SeenOK, Receipt
  <2> QED BY <2>1, <2>2, QuietDesk
<1>9. ASSUME NEW o \in Orders, NEW new, orders' = [orders EXCEPT ![o] = new],
             o \in Created, new.reference = orders[o].reference, new.status # "none",
             Tells(o, new), UNCHANGED <<sequence, raced>>,
             \A t \in Desks : call'[t] = call[t] \/ call'[t] = Idle
      PROVE  DeskInv'
  <2>1. orders \in [Orders -> Order]
    BY DEF Types, TypeOK, Order
  <2>2. /\ orders'[o] = new /\ \A q \in Orders : q # o => orders'[q] = orders[q]
        /\ new # NoOrder /\ Created' = Created
    BY <1>9, <2>1 DEF Created, NoOrder
  <2>3. StatusTellsLines' /\ Filed'
    BY <1>9, <2>2 DEF DeskInv, StatusTellsLines, Filed, Created
  <2>4. \A q \in Created : orders'[q].reference = orders[q].reference
    BY <1>9, <2>2 DEF Created
  <2>5. ASSUME NEW t \in Desks PROVE SeenOK(t)' /\ FilingOK(t)'
    <3>1. CASE call'[t] = Idle
      BY <3>1 DEF SeenOK, FilingOK, Idle
    <3>2. CASE call'[t] = call[t]
      <4>1. SeenOK(t) /\ FilingOK(t) /\ CallOK(call[t])
        BY <1>0
      <4>2. call[t].op = "receive" =>
              orders'[call[t].order] # NoOrder
              /\ orders'[call[t].order].reference = orders[call[t].order].reference
        BY <1>9, <2>2, <4>1 DEF CallOK, ReceiptOK, SeenOK
      <4>3. call[t].op = "create" => call[t].order # o /\ call[t].order \in Orders
        BY <1>9, <4>1 DEF FilingOK, CallOK, Created
      <4>4. \A u \in Desks : call'[u].op = "create" => call'[u] = call[u]
        BY <1>9 DEF Idle
      <4>5. SeenOK(t)'
        BY <3>2, <4>1, <4>2 DEF SeenOK
      <4>6. FilingOK(t)'
        BY <2>2, <3>2, <4>1, <4>3, <4>4 DEF FilingOK
      <4> QED BY <4>5, <4>6
    <3> QED BY <1>9, <3>1, <3>2
  <2>6. ASSUME ~raced' PROVE Numbered'
    <3>1. Numbered
      BY <1>9, <2>6 DEF DeskInv
    <3>2. \A t \in Desks : /\ At(t, "create", "number")' => At(t, "create", "number") /\ call'[t] = call[t]
                           /\ At(t, "create", "add")' => At(t, "create", "add") /\ call'[t] = call[t]
      BY <1>9 DEF At, Idle
    <3> QED BY <1>9, <2>2, <2>4, <3>1, <3>2 DEF Numbered
  <2> QED BY <2>3, <2>5, <2>6 DEF DeskInv
<1>10. ASSUME NEW d \in Desks, PutOrder(d) PROVE DeskInv'
  <2> DEFINE c == call[d]
             put == [reference |-> c.seen.reference,
                     status |-> StatusAfter(c.order, c.received, c.seen.status),
                     received |-> c.received]
  <2>1. /\ UNCHANGED <<sequence, raced>> /\ c.op = "receive"
        /\ orders' = [orders EXCEPT ![c.order] = put]
        /\ call'[d] = Idle /\ \A t \in Desks : t # d => call'[t] = call[t]
    BY <1>0, <1>10, Went DEF PutOrder, At, Ends
  <2>2. ReceiptOK(c) /\ SeenOK(d)
    BY <1>0, <2>1 DEF CallOK
  <2>3. c.order \in Created /\ c.order \in Orders
    BY <2>1, <2>2 DEF SeenOK, ReceiptOK, Created
  <2>4. put.reference = orders[c.order].reference
    BY <2>1, <2>2 DEF SeenOK
  <2>5. put.status # "none"
    BY <2>1, <2>2, PutIsFiled DEF SeenOK
  <2>6. Tells(c.order, put)
    BY <2>1, <2>2, PutTells DEF SeenOK
  <2> HIDE DEF put
  <2> QED BY <1>9, <2>1, <2>3, <2>4, <2>5, <2>6
<1>11. ASSUME NEW o \in Orders, CancelOrder(o) PROVE DeskInv'
  <2> DEFINE new == [orders[o] EXCEPT !.status = "cancelled"]
  <2>1. orders[o] \in Order
    BY DEF Types, TypeOK, Order
  <2>2. /\ new.reference = orders[o].reference /\ new.status = "cancelled"
    BY <2>1 DEF Order
  <2>3. Tells(o, new)
    BY <2>2 DEF Tells
  <2>4. orders' = [orders EXCEPT ![o] = new] /\ UNCHANGED <<sequence, raced, call>> /\ o \in Created
    BY <1>11 DEF CancelOrder, flaws
  <2> HIDE DEF new
  <2> QED BY <1>9, <2>2, <2>3, <2>4
<1>12. ASSUME NEW d \in Desks, NEW p \in Products, NEW n \in 1 .. MaxUnits, TransferOut(d, p, n)
       PROVE  DeskInv'
  BY <1>0, <1>12, Went, IdleHasSeen, QuietDesk DEF TransferOut, desk, flaws
<1>13. ASSUME NEW d \in Desks, TransferIn(d) PROVE DeskInv'
  BY <1>0, <1>13, Went, IdleHasSeen, QuietDesk DEF TransferIn, desk, flaws, Ends, Idle
<1>14. ASSUME NEW d \in Desks, NEW l \in Deliveries, AddReturn(d, l) PROVE DeskInv'
  BY <1>0, <1>14, Went, IdleHasSeen, QuietDesk DEF AddReturn, desk, flaws
<1>15. ASSUME NEW d \in Desks, NEW p \in Products, SendBack(d, p) PROVE DeskInv'
  BY <1>0, <1>15, Went, IdleHasSeen, QuietDesk DEF SendBack, desk, flaws, Ends, Idle
<1>16. ASSUME NEW d \in Desks, Interrupt(d) PROVE DeskInv'
  BY <1>0, <1>16, Went, IdleHasSeen, QuietDesk DEF Interrupt, desk, Ends, Idle
<1>17. CASE UNCHANGED <<orders, sequence, call, raced>>
  BY <1>17 DEF DeskInv, StatusTellsLines, Filed, Created, SeenOK, FilingOK, Numbered, At
<1> QED
  BY <1>1, <1>2, <1>3, <1>4, <1>5, <1>6, <1>7, <1>8, <1>10, <1>11, <1>12, <1>13, <1>14, <1>15,
     <1>16, <1>17 DEF Next, RemoveProduct, Pull, vars, desk, flaws

(* receiveGoods: the status of an order says what its lines say, for any   *)
(* number of tabs that receive, cancel and overwrite each other.           *)
THEOREM StatusIsTrue == Spec => []StatusTellsLines
<1>1. Spec => []Types
  BY TypesInit, TypesNext, PTL DEF Spec
<1>2. Spec => []DeskInv
  BY <1>1, DeskInit, DeskNext, PTL DEF Spec
<1> QED BY <1>2, PTL DEF DeskInv

(* nextPurchaseReference: reference numbers are distinct as long as no two *)
(* orders were numbered at the same time.                                  *)
THEOREM ReferencesAreDistinct == Spec => []ReferencesDistinct
<1>1. Spec => []Types
  BY TypesInit, TypesNext, PTL DEF Spec
<1>2. Spec => []DeskInv
  BY <1>1, DeskInit, DeskNext, PTL DEF Spec
<1>3. DeskInv => ReferencesDistinct
  BY DEF DeskInv, Numbered, ReferencesDistinct
<1> QED BY <1>2, <1>3, PTL

-------------------------------------------------------------------------------
(* What was booked is shown *)

On(d, o) == call[d].op = "receive" /\ call[d].order = o

\* The receipts that have counted on a line since the order was put.
Counting(o, p) == {d \in Desks : On(d, o) /\ call[d].received[p] # orders[o].received[p]}

\* No receipt under way has missed one that was put.
Current(o) == \A d \in Desks : On(d, o) => call[d].seen.received = orders[o].received

Units(o, p) == Smaller(Ordered[o][p], booked[o][p])

(* While no receipt is stale, what was booked of a line is on the order, or *)
(* in the copy of the one receipt that has counted on the line.  Where two  *)
(* have, or one is stale, the order will be marred before they are done.    *)
Accounted(o) ==
  /\ \A d \in Desks : On(d, o) =>
       \A p \in Products : call[d].seen.received[p] <= orders[o].received[p]
  /\ Current(o) => \A p \in Products \ gone :
       /\ Counting(o, p) = {} => Units(o, p) = orders[o].received[p]
       /\ \A d \in Desks : Counting(o, p) = {d} => Units(o, p) = call[d].received[p]

AccountedInv == \A o \in Orders \ marred : Accounted(o)

\* A step that neither books for an order, nor puts it, nor ends its receipts.
LEMMA StaysAccounted ==
  ASSUME NEW o \in Orders, Accounted(o), gone \subseteq gone', booked'[o] = booked[o],
         orders'[o].received = orders[o].received,
         \A d \in Desks : On(d, o)' <=> On(d, o),
         \A d \in Desks : On(d, o) => /\ call'[d].seen.received = call[d].seen.received
                                      /\ call'[d].received = call[d].received
  PROVE  Accounted(o)'
<1>1. \A p : Counting(o, p)' = Counting(o, p)
  BY DEF Counting
<1>2. Current(o)' <=> Current(o)
  BY DEF Current
<1>3. \A p : Units(o, p)' = Units(o, p)
  BY DEF Units
<1>4. \A p, d : Counting(o, p) = {d} => On(d, o) /\ d \in Desks
  BY DEF Counting
<1>5. \A d \in Desks : On(d, o)' =>
         \A p \in Products : call'[d].seen.received[p] <= orders'[o].received[p]
  BY DEF Accounted
<1>6. ASSUME Current(o)', NEW p \in Products \ gone'
      PROVE  /\ Counting(o, p)' = {} => Units(o, p)' = orders'[o].received[p]
             /\ \A d \in Desks : Counting(o, p)' = {d} => Units(o, p)' = call'[d].received[p]
  <2>1. /\ Counting(o, p) = {} => Units(o, p) = orders[o].received[p]
        /\ \A d \in Desks : Counting(o, p) = {d} => Units(o, p) = call[d].received[p]
    BY <1>2, <1>6 DEF Accounted
  <2> QED BY <1>1, <1>3, <1>4, <2>1
<1> QED BY <1>5, <1>6 DEF Accounted

\* A line counts up as what was booked for it does.
LEMMA CountsUnits ==
  ASSUME NEW m \in Nat, NEW had \in Nat, NEW b \in Nat, NEW n \in Nat,
         Smaller(m, b) = had
  PROVE  Smaller(m, b + n) = Smaller(m, had + n)
BY DEF Smaller

LEMMA BookingAccounts ==
  ASSUME Types, DeskInv, NEW d \in Desks, NEW p \in Products, BookLine(d, p),
         NEW o \in Orders, call[d].order = o, Accounted(o)
  PROVE  Accounted(o)'
<1> DEFINE c == call[d]
           n == c.delivery[p]
           counted == [c.received EXCEPT ![p] = Counted(o, p, @, n)]
<1>1. CallsOK /\ \A t \in Desks : CallOK(call[t]) /\ SeenOK(t)
  BY DEF Types, CallsOK, DeskInv
<1>2. /\ c.op = "receive" /\ p \in DOMAIN c.delivery /\ n > 0
      /\ Journal(o, p, c)
      /\ UNCHANGED <<orders, gone>>
      /\ call'[d] = Receipt("batch", o, c.seen, c.no, counted, Without(c.delivery, p), p, {})
      /\ \A t \in Desks : t # d => call'[t] = call[t]
  BY <1>1, Went DEF BookLine, At, desk
<1>3. /\ n \in Nat /\ c.received \in [Products -> Nat]
      /\ booked \in [Orders -> [Products -> Nat]]
      /\ Ordered[o] \in [Products -> Nat]
      /\ orders[o].received \in [Products -> Nat]
  BY <1>1, <1>2 DEF CallOK, ReceiptOK, Within, IsDelivery, Types, TypeOK
<1>4. /\ call'[d].op = "receive" /\ call'[d].order = o
      /\ call'[d].seen = c.seen /\ call'[d].received = counted
  BY <1>2 DEF Receipt
<1>5. \A t \in Desks : (On(t, o)' <=> On(t, o)) /\ (On(t, o) => call'[t].seen = call[t].seen)
  BY <1>2, <1>4 DEF On
<1>6. Current(o)' <=> Current(o)
  BY <1>2, <1>5 DEF Current
<1>7. \A t \in Desks : On(t, o)' =>
         \A q \in Products : call'[t].seen.received[q] <= orders'[o].received[q]
  BY <1>2, <1>5 DEF Accounted
<1>8. \A t \in Desks : On(t, o) => /\ call[t].received \in [Products -> Nat]
                                   /\ \A q \in Products : /\ call[t].received[q] <= Ordered[o][q]
                                                          /\ call[t].seen.received[q] <= call[t].received[q]
  BY <1>1 DEF On, CallOK, ReceiptOK, Within, SeenOK
<1> HIDE DEF counted
<1>9. ASSUME Current(o), NEW q \in Products \ gone
      PROVE  /\ Counting(o, q)' = {} => Units(o, q)' = orders'[o].received[q]
             /\ \A t \in Desks : Counting(o, q)' = {t} => Units(o, q)' = call'[t].received[q]
  <2>0. /\ Counting(o, q) = {} => Units(o, q) = orders[o].received[q]
        /\ \A t \in Desks : Counting(o, q) = {t} => Units(o, q) = call[t].received[q]
    BY <1>9 DEF Accounted
  <2>1. CASE q # p
    <3>1. counted[q] = c.received[q]
      BY <1>3, <2>1 DEF counted
    <3>2. booked'[o][q] = booked[o][q]
      BY <1>2, <1>3, <2>1 DEF Journal
    <3>3. Counting(o, q)' = Counting(o, q) /\ Units(o, q)' = Units(o, q)
      BY <1>2, <1>4, <1>5, <3>1, <3>2 DEF Counting, Units, On
    <3>4. \A t \in Desks : call'[t].received[q] = call[t].received[q]
      BY <1>2, <1>4, <3>1
    <3> QED BY <1>2, <2>0, <3>3, <3>4
  <2>2. CASE q = p
    <3> DEFINE base == orders[o].received[p]
               had == c.received[p]
               now == Counted(o, p, had, n)
               others == {t \in Desks : t # d /\ On(t, o) /\ call[t].received[p] # base}
    <3>1. counted[p] = now
      BY <1>3 DEF counted
    <3>2. booked'[o][p] = booked[o][p] + n
      BY <1>2, <1>3, <1>9, <2>2 DEF Journal
    <3>3. Counting(o, p) = others \cup (IF had # base THEN {d} ELSE {})
      BY <1>2 DEF Counting, On
    <3>4. Counting(o, p)' = others \cup (IF now # base THEN {d} ELSE {})
      BY <1>2, <1>4, <1>5, <3>1 DEF Counting, On
    <3>5. d \notin others /\ others \subseteq Desks
      OBVIOUS
    <3>6. /\ base \in Nat /\ had \in Nat /\ now \in Nat /\ base <= had
          /\ had <= now /\ now <= Ordered[o][p] /\ now = Smaller(Ordered[o][p], had + n)
      <4>1. base \in Nat /\ had \in Nat
        BY <1>3
      <4>2. On(d, o)
        BY <1>2 DEF On
      <4>3. base <= had
        BY <1>8, <1>9, <4>2 DEF Current
      <4>4. had <= Ordered[o][p]
        BY <1>8, <4>2
      <4> QED BY <1>3, <4>1, <4>3, <4>4, CountedIs DEF Counted
    <3>7. Units(o, p)' = Smaller(Ordered[o][p], booked[o][p] + n)
      BY <3>2 DEF Units
    <3>8. Units(o, p) = had => Units(o, p)' = now
      <4> SUFFICES ASSUME Units(o, p) = had PROVE Units(o, p)' = now
        OBVIOUS
      <4>1. Ordered[o][p] \in Nat /\ booked[o][p] \in Nat /\ had \in Nat
        BY <1>3, <3>6
      <4>2. Smaller(Ordered[o][p], booked[o][p]) = had
        BY DEF Units
      <4>3. n \in Nat
        BY <1>3
      <4> HIDE DEF had, now, n
      <4>4. Smaller(Ordered[o][p], booked[o][p] + n) = Smaller(Ordered[o][p], had + n)
        BY <4>1, <4>2, <4>3, CountsUnits
      <4> QED BY <3>6, <3>7, <4>4
    <3>9. ASSUME NEW t \in others PROVE now # base
      <4>1. /\ t \in Desks /\ On(t, o) /\ call[t].received[p] # base
            /\ call[t].received[p] \in Nat /\ call[t].received[p] <= Ordered[o][p]
            /\ base <= call[t].received[p]
        BY <1>8, <1>9, <3>5, <3>9 DEF Current
      <4> DEFINE ordered == Ordered[o][p]
                 theirs == call[t].received[p]
      <4>2. ordered \in Nat /\ n \in Nat /\ n > 0
        BY <1>2, <1>3
      <4>3. /\ theirs \in Nat /\ theirs <= ordered /\ base <= theirs /\ theirs # base
            /\ base \in Nat /\ had \in Nat /\ base <= had
            /\ now = Smaller(ordered, had + n)
        BY <3>6, <4>1
      <4> HIDE DEF base, had, now, n, ordered, theirs
      <4>4. base < ordered
        BY <4>2, <4>3
      <4> QED BY <4>2, <4>3, <4>4 DEF Smaller
    <3> HIDE DEF base, had, now, others
    <3>10. CASE others = {}
      <4>1. Units(o, p) = had
        BY <2>0, <2>2, <3>3, <3>10 DEF base, had
      <4>2. Units(o, p)' = now
        BY <3>8, <4>1
      <4>3. /\ Counting(o, p)' = {} => now = base
            /\ \A t \in Desks : Counting(o, p)' = {t} => t = d
        BY <3>4, <3>10
      <4> QED BY <1>2, <1>4, <2>2, <3>1, <4>2, <4>3 DEF base
    <3>11. CASE others # {}
      <4>1. PICK t \in others : TRUE
        BY <3>11
      <4>2. {t, d} \subseteq Counting(o, p)' /\ t # d
        BY <3>4, <3>5, <3>9, <4>1
      <4> QED BY <2>2, <4>2
    <3> QED BY <3>10, <3>11
  <2> QED BY <2>1, <2>2
<1> QED BY <1>2, <1>6, <1>7, <1>9 DEF Accounted

LEMMA PuttingAccounts ==
  ASSUME Types, DeskInv, NEW d \in Desks, PutOrder(d),
         NEW o \in Orders, call[d].order = o, Accounted(o), orders[o] = call[d].seen
  PROVE  Accounted(o)'
<1> DEFINE c == call[d]
<1>1. CallsOK /\ \A t \in Desks : CallOK(call[t]) /\ SeenOK(t)
  BY DEF Types, CallsOK, DeskInv
<1>2. /\ c.op = "receive" /\ UNCHANGED <<booked, gone>>
      /\ orders'[o].received = c.received
      /\ call'[d] = Idle /\ \A t \in Desks : t # d => call'[t] = call[t]
  BY <1>1, Went DEF PutOrder, At, journal, Ends, Types, TypeOK
<1>3. On(d, o) /\ c.seen.received = orders[o].received
  BY <1>2 DEF On
<1>4. \A t \in Desks : On(t, o)' <=> t # d /\ On(t, o)
  BY <1>2 DEF On, Idle
<1>5. \A t \in Desks : On(t, o) =>
        /\ call[t].seen.received \in [Products -> Nat] /\ call[t].received \in [Products -> Nat]
        /\ \A q \in Products : call[t].seen.received[q] <= call[t].received[q]
        /\ \A q \in Products : call[t].seen.received[q] <= orders[o].received[q]
  BY <1>1 DEF On, CallOK, ReceiptOK, Within, SeenOK, Accounted
<1>6. orders[o].received \in [Products -> Nat] /\ c.received \in [Products -> Nat]
  BY <1>3, <1>5
<1>7. \A t \in Desks : On(t, o)' =>
         \A q \in Products : call'[t].seen.received[q] <= orders'[o].received[q]
  <2> SUFFICES ASSUME NEW t \in Desks, On(t, o)', NEW q \in Products
               PROVE  call'[t].seen.received[q] <= orders'[o].received[q]
    OBVIOUS
  <2>1. t # d /\ On(t, o) /\ call'[t] = call[t]
    BY <1>2, <1>4
  <2>2. /\ call[t].seen.received[q] \in Nat /\ orders[o].received[q] \in Nat /\ c.received[q] \in Nat
        /\ call[t].seen.received[q] <= orders[o].received[q]
        /\ orders[o].received[q] <= c.received[q]
    BY <1>3, <1>5, <1>6, <2>1
  <2> QED BY <1>2, <2>1, <2>2
<1>8. ASSUME Current(o)', NEW q \in Products \ gone
      PROVE  /\ Counting(o, q)' = {} => Units(o, q)' = orders'[o].received[q]
             /\ \A t \in Desks : Counting(o, q)' = {t} => Units(o, q)' = call'[t].received[q]
  <2>1. ASSUME NEW t \in Desks, On(t, o)'
        PROVE  call[t].seen.received = c.received /\ orders[o].received = c.received
    <3>1. t # d /\ On(t, o) /\ call[t].seen.received = c.received
      BY <1>2, <1>4, <1>8, <2>1 DEF Current
    <3>2. \A r \in Products : orders[o].received[r] = c.received[r]
      <4> SUFFICES ASSUME NEW r \in Products PROVE orders[o].received[r] = c.received[r]
        OBVIOUS
      <4>1. /\ orders[o].received[r] \in Nat /\ c.received[r] \in Nat
            /\ c.received[r] <= orders[o].received[r]
            /\ orders[o].received[r] <= c.received[r]
        BY <1>3, <1>5, <1>6, <3>1
      <4> QED BY <4>1
    <3> QED BY <1>6, <3>1, <3>2
  <2>2. Current(o)
    <3> SUFFICES ASSUME NEW t \in Desks, On(t, o)
                 PROVE  call[t].seen.received = orders[o].received
      BY DEF Current
    <3> QED BY <1>3, <1>4, <2>1
  <2>3. /\ Counting(o, q) = {} => Units(o, q) = orders[o].received[q]
        /\ \A t \in Desks : Counting(o, q) = {t} => Units(o, q) = call[t].received[q]
    BY <1>8, <2>2 DEF Accounted
  <2>4. Units(o, q)' = Units(o, q)
    BY <1>2 DEF Units
  <2>5. CASE \E t \in Desks : On(t, o)'
    <3>1. orders[o].received = c.received
      BY <2>1, <2>5
    <3>2. Counting(o, q)' = Counting(o, q)
      BY <1>2, <1>4, <3>1 DEF Counting, On
    <3>3. \A t \in Desks : Counting(o, q) = {t} => t # d
      BY <3>1 DEF Counting
    <3> QED BY <1>2, <2>3, <2>4, <3>1, <3>2, <3>3
  <2>6. CASE ~ \E t \in Desks : On(t, o)'
    <3>1. \A t \in Desks : On(t, o) => t = d
      BY <1>4, <2>6
    <3>2. Counting(o, q)' = {}
      BY <2>6 DEF Counting
    <3>3. Counting(o, q) = IF c.received[q] # orders[o].received[q] THEN {d} ELSE {}
      BY <1>3, <3>1 DEF Counting
    <3>4. Units(o, q) = c.received[q]
      BY <2>3, <3>3
    <3> QED BY <1>2, <2>4, <3>2, <3>4
  <2> QED BY <2>5, <2>6
<1> QED BY <1>2, <1>7, <1>8 DEF Accounted

LEMMA AccountedInit == Init => AccountedInv
<1> SUFFICES ASSUME Init, NEW o \in Orders PROVE Accounted(o)
  BY DEF AccountedInv
<1>1. \A d \in Desks : ~On(d, o)
  BY DEF Init, Idle, On
<1>2. \A p : Counting(o, p) = {}
  BY <1>1 DEF Counting
<1>3. \A p \in Products : Units(o, p) = 0 /\ orders[o].received[p] = 0
  BY DEF Init, Units, Smaller, NoOrder, Nothing
<1> QED BY <1>1, <1>2, <1>3 DEF Accounted

\* A step of a tab on another order, or one that leaves its receipt as it was.
LEMMA StepBeside ==
  ASSUME NEW o \in Orders, Accounted(o), gone \subseteq gone', booked'[o] = booked[o],
         orders'[o].received = orders[o].received,
         NEW d \in Desks, \A t \in Desks : t # d => call'[t] = call[t],
         \/ ~On(d, o) /\ ~On(d, o)'
         \/ /\ On(d, o) /\ On(d, o)'
            /\ call'[d].seen = call[d].seen /\ call'[d].received = call[d].received
  PROVE  Accounted(o)'
<1>1. \A t \in Desks : /\ On(t, o)' <=> On(t, o)
                       /\ On(t, o) => /\ call'[t].seen.received = call[t].seen.received
                                      /\ call'[t].received = call[t].received
  BY DEF On
<1> QED BY <1>1, StaysAccounted

LEMMA AccountedNext == Types /\ DeskInv /\ AccountedInv /\ [Next]_vars => AccountedInv'
<1> SUFFICES ASSUME Types, DeskInv, AccountedInv, [Next]_vars, NEW o \in Orders, o \notin marred'
             PROVE  Accounted(o)'
  BY DEF AccountedInv
<1>0. CallsOK /\ \A d \in Desks : CallOK(call[d]) /\ SeenOK(d) /\ FilingOK(d)
  BY DEF Types, CallsOK, DeskInv
<1>a. marred \subseteq marred'
  <2>1. ASSUME NEW d \in Desks,
               \/ \E q \in Orders : ReadSequence(d, q)
               \/ WriteSequence(d)
               \/ \E status \in {"draft", "ordered"} : AddOrder(d, status)
               \/ \E q \in Orders, l \in Deliveries : GetOrder(d, q, l)
               \/ \E p \in Products : BookLine(d, p) \/ SkipLine(d, p)
               \/ \E named \in BOOLEAN : ReadBatches(d, named)
               \/ AppendBatch(d)
        PROVE  marred' = marred
    BY <2>1 DEF ReadSequence, WriteSequence, AddOrder, GetOrder, BookLine, SkipLine, ReadBatches,
                AppendBatch, flaws
  <2>2. ASSUME NEW d \in Desks,
               \/ \E p \in Products, n \in 1 .. MaxUnits : TransferOut(d, p, n)
               \/ TransferIn(d)
               \/ \E l \in Deliveries : AddReturn(d, l)
               \/ \E p \in Products : SendBack(d, p)
        PROVE  marred' = marred
    BY <2>2 DEF TransferOut, TransferIn, AddReturn, SendBack, flaws
  <2>3. ASSUME NEW d \in Desks, PutOrder(d) \/ Interrupt(d)
        PROVE  marred \subseteq marred'
    BY <2>3 DEF PutOrder, Interrupt
  <2>4. CASE \/ \E q \in Orders : CancelOrder(q)
             \/ \E p \in Products : RemoveProduct(p)
             \/ Pull
             \/ UNCHANGED vars
    BY <2>4 DEF CancelOrder, RemoveProduct, Pull, vars, flaws
  <2> QED BY <2>1, <2>2, <2>3, <2>4 DEF Next
<1>b. Accounted(o)
  BY <1>a DEF AccountedInv
<1>c. orders \in [Orders -> Order] /\ booked \in [Orders -> [Products -> Nat]]
  BY DEF Types, TypeOK, Order
<1>1. ASSUME NEW d \in Desks, NEW q \in Orders, ReadSequence(d, q) PROVE Accounted(o)'
  BY <1>0, <1>b, <1>1, Went, StepBeside DEF ReadSequence, desk, journal, On, Free, Idle
<1>2. ASSUME NEW d \in Desks, WriteSequence(d) PROVE Accounted(o)'
  BY <1>0, <1>b, <1>2, Went, StepBeside DEF WriteSequence, At, journal, On
<1>3. ASSUME NEW d \in Desks, NEW status \in {"draft", "ordered"}, AddOrder(d, status)
      PROVE  Accounted(o)'
  <2>1. /\ call[d].op = "create" /\ call'[d] = Idle
        /\ UNCHANGED <<gone, booked>>
        /\ \A t \in Desks : t # d => call'[t] = call[t]
    BY <1>0, <1>3, Went DEF AddOrder, At, journal, Ends
  <2>2. orders'[o].received = orders[o].received
    <3>1. orders[call[d].order] = NoOrder
      BY <1>0, <2>1 DEF FilingOK
    <3> QED BY <1>3, <1>c, <3>1 DEF AddOrder, NoOrder
  <2> QED BY <1>b, <2>1, <2>2, StepBeside DEF On, Idle
<1>4. ASSUME NEW d \in Desks, NEW q \in Orders, NEW l \in Deliveries, GetOrder(d, q, l)
      PROVE  Accounted(o)'
  <2>1. /\ call[d] = Idle /\ UNCHANGED <<orders, gone, booked>>
        /\ call'[d] = Receipt("line", q, orders[q], begun', orders[q].received, l, NoProduct, {})
        /\ \A t \in Desks : t # d => call'[t] = call[t]
    BY <1>0, <1>4, Went DEF GetOrder, Free, desk, journal
  <2>2. CASE q # o
    BY <1>b, <2>1, <2>2, StepBeside DEF On, Idle, Receipt
  <2>3. CASE q = o
    <3>1. /\ ~On(d, o) /\ On(d, o)'
          /\ call'[d].seen.received = orders[o].received
          /\ call'[d].received = orders[o].received
      BY <2>1, <2>3 DEF On, Idle, Receipt
    <3>2. \A t \in Desks : t # d => (On(t, o)' <=> On(t, o))
      BY <2>1 DEF On
    <3>3. Current(o)' => Current(o)
      BY <2>1, <3>1, <3>2 DEF Current
    <3>4. \A p : Counting(o, p)' = Counting(o, p)
      BY <2>1, <3>1, <3>2 DEF Counting
    <3>5. \A p : Units(o, p)' = Units(o, p)
      BY <2>1 DEF Units
    <3>6. \A p, t : Counting(o, p) = {t} => t # d
      BY <3>1 DEF Counting
    <3>7. \A t \in Desks : On(t, o)' =>
            \A p \in Products : call'[t].seen.received[p] <= orders'[o].received[p]
      <4>1. \A p \in Products : orders[o].received[p] <= orders[o].received[p]
        BY <1>c DEF Order
      <4> QED BY <1>b, <2>1, <3>1, <3>2, <4>1 DEF Accounted
    <3>8. ASSUME Current(o)', NEW p \in Products \ gone'
          PROVE  /\ Counting(o, p)' = {} => Units(o, p)' = orders'[o].received[p]
                 /\ \A t \in Desks : Counting(o, p)' = {t} => Units(o, p)' = call'[t].received[p]
      <4>1. /\ Counting(o, p) = {} => Units(o, p) = orders[o].received[p]
            /\ \A t \in Desks : Counting(o, p) = {t} => Units(o, p) = call[t].received[p]
        BY <1>b, <2>1, <3>3, <3>8 DEF Accounted
      <4> QED BY <2>1, <3>4, <3>5, <3>6, <4>1
    <3> QED BY <3>7, <3>8 DEF Accounted
  <2> QED BY <2>2, <2>3
<1>5. ASSUME NEW d \in Desks, NEW p \in Products, BookLine(d, p) PROVE Accounted(o)'
  <2>1. CASE call[d].order = o
    BY <1>5, <1>b, <2>1, BookingAccounts
  <2>2. CASE call[d].order # o
    <3>1. /\ UNCHANGED <<orders, gone>> /\ booked'[o] = booked[o]
          /\ call'[d].order = call[d].order
          /\ \A t \in Desks : t # d => call'[t] = call[t]
      BY <1>0, <1>5, <1>c, <2>2, Went DEF BookLine, Journal, Receipt, desk
    <3> QED BY <1>b, <2>2, <3>1, StepBeside DEF On
  <2> QED BY <2>1, <2>2
<1>6. ASSUME NEW d \in Desks, NEW p \in Products, SkipLine(d, p) PROVE Accounted(o)'
  BY <1>0, <1>b, <1>6, Went, StepBeside DEF SkipLine, At, Receipt, desk, journal, On
<1>7. ASSUME NEW d \in Desks, NEW named \in BOOLEAN, ReadBatches(d, named) PROVE Accounted(o)'
  BY <1>0, <1>b, <1>7, Went, StepBeside DEF ReadBatches, At, Receipt, desk, journal, On
<1>8. ASSUME NEW d \in Desks, AppendBatch(d) PROVE Accounted(o)'
  BY <1>0, <1>b, <1>8, Went, StepBeside DEF AppendBatch, At, Receipt, desk, On
<1>9. ASSUME NEW d \in Desks, PutOrder(d) PROVE Accounted(o)'
  <2>1. CASE call[d].order = o
    <3>1. orders[o] = call[d].seen
      BY <1>9, <2>1 DEF PutOrder
    <3> QED BY <1>9, <1>b, <2>1, <3>1, PuttingAccounts
  <2>2. CASE call[d].order # o
    <3>1. /\ UNCHANGED <<gone, booked>> /\ orders'[o] = orders[o]
          /\ call'[d] = Idle /\ \A t \in Desks : t # d => call'[t] = call[t]
      BY <1>0, <1>9, <1>c, <2>2, Went DEF PutOrder, journal, Ends
    <3> QED BY <1>b, <2>2, <3>1, StepBeside DEF On, Idle
  <2> QED BY <2>1, <2>2
<1>10. ASSUME NEW d \in Desks, NEW p \in Products, NEW n \in 1 .. MaxUnits, TransferOut(d, p, n)
       PROVE  Accounted(o)'
  BY <1>0, <1>b, <1>10, Went, StepBeside DEF TransferOut, desk, On, Free, Idle
<1>11. ASSUME NEW d \in Desks, TransferIn(d) PROVE Accounted(o)'
  BY <1>0, <1>b, <1>11, Went, StepBeside DEF TransferIn, At, Ends, desk, On, Idle
<1>12. ASSUME NEW d \in Desks, NEW l \in Deliveries, AddReturn(d, l) PROVE Accounted(o)'
  BY <1>0, <1>b, <1>12, Went, StepBeside DEF AddReturn, desk, On, Free, Idle
<1>13. ASSUME NEW d \in Desks, NEW p \in Products, SendBack(d, p) PROVE Accounted(o)'
  BY <1>0, <1>b, <1>13, Went, StepBeside DEF SendBack, At, Ends, desk, On, Idle
<1>14. ASSUME NEW d \in Desks, Interrupt(d) PROVE Accounted(o)'
  <2>1. ~On(d, o)
    BY <1>14 DEF Interrupt, On
  <2> QED BY <1>0, <1>b, <1>14, <2>1, Went, StepBeside DEF Interrupt, Ends, desk, journal, On, Idle
<1>15. ASSUME NEW q \in Orders, CancelOrder(q) PROVE Accounted(o)'
  <2>1. orders'[o].received = orders[o].received
    BY <1>15, <1>c DEF CancelOrder, Order
  <2>2. UNCHANGED <<gone, booked, call>>
    BY <1>15 DEF CancelOrder, journal
  <2> QED BY <1>b, <2>1, <2>2, StaysAccounted DEF On
<1>16. ASSUME NEW p \in Products, RemoveProduct(p) PROVE Accounted(o)'
  <2>1. gone \subseteq gone' /\ UNCHANGED <<orders, booked, call>>
    BY <1>16 DEF RemoveProduct, desk, journal
  <2> QED BY <1>b, <2>1, StaysAccounted DEF On
<1>17. CASE UNCHANGED <<orders, gone, booked, call>>
  BY <1>17, <1>b, StaysAccounted DEF On
<1> QED
  BY <1>1, <1>2, <1>3, <1>4, <1>5, <1>6, <1>7, <1>8, <1>9, <1>10, <1>11, <1>12, <1>13, <1>14,
     <1>15, <1>16, <1>17 DEF Next, Pull, vars, desk

(* receiveGoods: an order on which nothing is being received shows what    *)
(* was booked for it, up to what was ordered, for any number of tabs,      *)
(* unless a receipt of it was cut short or overwrote another change.       *)
THEOREM BookedIsShown == Spec => []ShownWhenDone
<1>1. Spec => []Types
  BY TypesInit, TypesNext, PTL DEF Spec
<1>2. Spec => []DeskInv
  BY <1>1, DeskInit, DeskNext, PTL DEF Spec
<1>3. Spec => []AccountedInv
  BY <1>1, <1>2, AccountedInit, AccountedNext, PTL DEF Spec
<1>4. AccountedInv => ShownWhenDone
  <2> SUFFICES ASSUME AccountedInv, NEW o \in Orders \ marred, ~Receiving(o),
                      NEW p \in Products \ gone
               PROVE  orders[o].received[p] = Smaller(Ordered[o][p], booked[o][p])
    BY DEF ShownWhenDone
  <2>1. \A d \in Desks : ~On(d, o)
    BY DEF Receiving, On
  <2>2. Current(o) /\ Counting(o, p) = {} /\ Accounted(o)
    BY <2>1 DEF Current, Counting, AccountedInv
  <2> QED BY <2>2 DEF Accounted, Units
<1> QED BY <1>3, <1>4, PTL

-------------------------------------------------------------------------------
(* Legs that are still to be written *)

\* What a call will still put on the second leg of a transfer, or send back.
Coming(c, p) == IF c.op = "transfer" /\ c.product = p THEN c.units ELSE 0

Sending(c, p) == IF c.op = "return" /\ p \in DOMAIN c.delivery THEN c.delivery[p] ELSE 0

ToCome(p) == SumOver([d \in Desks |-> Coming(call[d], p)], Desks)

ToSend(p) == SumOver([d \in Desks |-> Sending(call[d], p)], Desks)

\* What was written and what is still to be, against what left; exactly, unless
\* the product went or a call was cut short.
Matches(written, coming, left, exact) ==
  /\ written + coming <= left
  /\ exact => written + coming = left

Whole(p) == p \notin gone \cup halved

LegsInv ==
  \A p \in Products : /\ Matches(in[p], ToCome(p), out[p], Whole(p))
                      /\ Matches(sentBack[p], ToSend(p), returned[p], Whole(p))

LEMMA ShareIsNat ==
  ASSUME NEW c, CallOK(c), NEW p \in Products
  PROVE  Coming(c, p) \in Nat /\ Sending(c, p) \in Nat
BY DEF CallOK, IsDelivery, Coming, Sending

LEMMA IdleHasNoShare == \A p : Coming(Idle, p) = 0 /\ Sending(Idle, p) = 0
BY DEF Idle, Coming, Sending

LEMMA OwedIsNat ==
  ASSUME CallsOK, NEW p \in Products
  PROVE  /\ ToCome(p) \in Nat /\ ToSend(p) \in Nat
         /\ ~Moving(p) => ToCome(p) = 0 /\ ToSend(p) = 0
<1> DEFINE f == [d \in Desks |-> Coming(call[d], p)]
           g == [d \in Desks |-> Sending(call[d], p)]
<1>1. \A d \in Desks : f[d] \in Nat /\ g[d] \in Nat
  BY ShareIsNat DEF CallsOK
<1>2. ~Moving(p) => \A d \in Desks : f[d] = 0 /\ g[d] = 0
  BY DEF Moving, Coming, Sending
<1>3. ToCome(p) = SumOver(f, Desks) /\ ToSend(p) = SumOver(g, Desks)
  BY DEF ToCome, ToSend
<1> HIDE DEF f, g
<1>4. SumOver(f, Desks) \in Nat /\ SumOver(g, Desks) \in Nat
  BY <1>1, SumIsNat
<1>5. ~Moving(p) => SumOver(f, Desks) = 0 /\ SumOver(g, Desks) = 0
  BY <1>2, SumOfZeros
<1> QED BY <1>3, <1>4, <1>5

(* A step of one tab changes what is owed by the difference in its share.  *)
LEMMA OwedChanges ==
  ASSUME CallsOK, NEW d \in Desks, NEW c, CallOK(c), Goes(d, c), NEW p \in Products
  PROVE  /\ ToCome(p)' = ToCome(p) - Coming(call[d], p) + Coming(c, p)
         /\ ToSend(p)' = ToSend(p) - Sending(call[d], p) + Sending(c, p)
<1> DEFINE f == [t \in Desks |-> Coming(call[t], p)]
           f2 == [t \in Desks |-> Coming(call'[t], p)]
           g == [t \in Desks |-> Sending(call[t], p)]
           g2 == [t \in Desks |-> Sending(call'[t], p)]
<1>1. call'[d] = c /\ \A t \in Desks : t # d => call'[t] = call[t]
  BY Went
<1>2. \A t \in Desks : CallOK(call[t]) /\ CallOK(call'[t])
  BY <1>1 DEF CallsOK
<1>3. \A t \in Desks : f[t] \in Int /\ f2[t] \in Int /\ g[t] \in Int /\ g2[t] \in Int
  <2>1. \A t \in Desks : /\ Coming(call[t], p) \in Nat /\ Coming(call'[t], p) \in Nat
                         /\ Sending(call[t], p) \in Nat /\ Sending(call'[t], p) \in Nat
    BY <1>2, ShareIsNat
  <2> QED BY <2>1
<1>4. \A t \in Desks : t # d => f2[t] = f[t] /\ g2[t] = g[t]
  BY <1>1
<1>5. /\ f[d] = Coming(call[d], p) /\ f2[d] = Coming(c, p)
      /\ g[d] = Sending(call[d], p) /\ g2[d] = Sending(c, p)
  BY <1>1
<1>6. /\ ToCome(p) = SumOver(f, Desks) /\ ToCome(p)' = SumOver(f2, Desks)
      /\ ToSend(p) = SumOver(g, Desks) /\ ToSend(p)' = SumOver(g2, Desks)
  BY DEF ToCome, ToSend, Coming, Sending
<1> HIDE DEF f, f2, g, g2
<1>7. SumOver(f2, Desks) = SumOver(f, Desks) - f[d] + f2[d]
  BY <1>3, <1>4, SumChanges
<1>8. SumOver(g2, Desks) = SumOver(g, Desks) - g[d] + g2[d]
  BY <1>3, <1>4, SumChanges
<1> QED BY <1>5, <1>6, <1>7, <1>8

LEMMA LegsTyped ==
  ASSUME Types, Types', NEW p \in Products
  PROVE  /\ in[p] \in Nat /\ out[p] \in Nat /\ sentBack[p] \in Nat /\ returned[p] \in Nat
         /\ in'[p] \in Nat /\ out'[p] \in Nat /\ sentBack'[p] \in Nat /\ returned'[p] \in Nat
         /\ ToCome(p) \in Nat /\ ToSend(p) \in Nat /\ ToCome(p)' \in Nat /\ ToSend(p)' \in Nat
<1>1. CallsOK => ToCome(p) \in Nat /\ ToSend(p) \in Nat
  BY OwedIsNat
<1>2. (CallsOK => ToCome(p) \in Nat /\ ToSend(p) \in Nat)'
  BY <1>1, OwedIsNat, PTL
<1>3. CallsOK /\ CallsOK'
  BY DEF Types
<1> QED BY <1>1, <1>2, <1>3 DEF Types, TypeOK

LEMMA Shifts ==
  ASSUME NEW written \in Nat, NEW coming \in Nat, NEW left \in Nat,
         NEW written2 \in Nat, NEW left2 \in Nat, NEW share \in Nat, NEW share2 \in Nat,
         written + coming <= left,
         written2 + share2 + left <= written + share + left2
  PROVE  /\ written2 + (coming - share + share2) <= left2
         /\ /\ written + coming = left
            /\ written2 + share2 + left = written + share + left2
            => written2 + (coming - share + share2) = left2
OBVIOUS

LEMMA LegsInvIs ==
  LegsInv' <=> \A p \in Products : /\ Matches(in'[p], ToCome(p)', out'[p], Whole(p)')
                                   /\ Matches(sentBack'[p], ToSend(p)', returned'[p], Whole(p)')
BY DEF LegsInv, Matches, Whole, ToCome, ToSend, Coming, Sending

(* A step of one tab keeps the legs matched if it writes what it owed no   *)
(* longer, or takes over what left.                                        *)
LEMMA LegsStep ==
  ASSUME Types, Types', LegsInv, NEW d \in Desks, NEW c, Goes(d, c),
         \A p \in Products : Whole(p)' => Whole(p),
         \A p \in Products :
           /\ in'[p] + Coming(c, p) + out[p] <= in[p] + Coming(call[d], p) + out'[p]
           /\ sentBack'[p] + Sending(c, p) + returned[p] <=
                sentBack[p] + Sending(call[d], p) + returned'[p]
           /\ Whole(p)' => /\ in'[p] + Coming(c, p) + out[p] = in[p] + Coming(call[d], p) + out'[p]
                           /\ sentBack'[p] + Sending(c, p) + returned[p] =
                                sentBack[p] + Sending(call[d], p) + returned'[p]
  PROVE  LegsInv'
<1> SUFFICES ASSUME NEW p \in Products
             PROVE  /\ Matches(in'[p], ToCome(p)', out'[p], Whole(p)')
                    /\ Matches(sentBack'[p], ToSend(p)', returned'[p], Whole(p)')
  BY LegsInvIs
<1>1. CallsOK /\ CallsOK' /\ c = call'[d]
  BY Went DEF Types
<1>2. CallOK(c) /\ CallOK(call[d])
  BY <1>1 DEF CallsOK
<1>3. /\ Coming(c, p) \in Nat /\ Coming(call[d], p) \in Nat
      /\ Sending(c, p) \in Nat /\ Sending(call[d], p) \in Nat
  BY <1>2, ShareIsNat
<1>4. /\ ToCome(p)' = ToCome(p) - Coming(call[d], p) + Coming(c, p)
      /\ ToSend(p)' = ToSend(p) - Sending(call[d], p) + Sending(c, p)
  BY <1>1, <1>2, OwedChanges
<1>5. /\ in[p] \in Nat /\ out[p] \in Nat /\ sentBack[p] \in Nat /\ returned[p] \in Nat
      /\ in'[p] \in Nat /\ out'[p] \in Nat /\ sentBack'[p] \in Nat /\ returned'[p] \in Nat
      /\ ToCome(p) \in Nat /\ ToSend(p) \in Nat /\ ToCome(p)' \in Nat /\ ToSend(p)' \in Nat
  BY LegsTyped
<1>6. /\ Matches(in[p], ToCome(p), out[p], Whole(p))
      /\ Matches(sentBack[p], ToSend(p), returned[p], Whole(p))
  BY DEF LegsInv
<1>7. Matches(in'[p], ToCome(p)', out'[p], Whole(p)')
  <2>1. /\ in[p] + ToCome(p) <= out[p]
        /\ in'[p] + Coming(c, p) + out[p] <= in[p] + Coming(call[d], p) + out'[p]
    BY <1>6 DEF Matches
  <2>2. PICK w \in Nat, m \in Nat, l \in Nat, w2 \in Nat, l2 \in Nat, h \in Nat, h2 \in Nat :
          /\ w = in[p] /\ m = ToCome(p) /\ l = out[p] /\ w2 = in'[p] /\ l2 = out'[p]
          /\ h = Coming(call[d], p) /\ h2 = Coming(c, p)
    BY <1>3, <1>5
  <2>3. w + m <= l /\ w2 + h2 + l <= w + h + l2
    BY <2>1, <2>2
  <2>4. /\ w2 + (m - h + h2) <= l2
        /\ w + m = l /\ w2 + h2 + l = w + h + l2 => w2 + (m - h + h2) = l2
    BY <2>3, Shifts
  <2>5. ToCome(p)' = m - h + h2
    BY <1>4, <2>2
  <2>6. Whole(p)' => w + m = l /\ w2 + h2 + l = w + h + l2
    BY <1>6, <2>2 DEF Matches
  <2> QED BY <2>2, <2>4, <2>5, <2>6 DEF Matches
<1>8. Matches(sentBack'[p], ToSend(p)', returned'[p], Whole(p)')
  <2>1. /\ sentBack[p] + ToSend(p) <= returned[p]
        /\ sentBack'[p] + Sending(c, p) + returned[p] <= sentBack[p] + Sending(call[d], p) + returned'[p]
    BY <1>6 DEF Matches
  <2>2. PICK w \in Nat, m \in Nat, l \in Nat, w2 \in Nat, l2 \in Nat, h \in Nat, h2 \in Nat :
          /\ w = sentBack[p] /\ m = ToSend(p) /\ l = returned[p]
          /\ w2 = sentBack'[p] /\ l2 = returned'[p]
          /\ h = Sending(call[d], p) /\ h2 = Sending(c, p)
    BY <1>3, <1>5
  <2>3. w + m <= l /\ w2 + h2 + l <= w + h + l2
    BY <2>1, <2>2
  <2>4. /\ w2 + (m - h + h2) <= l2
        /\ w + m = l /\ w2 + h2 + l = w + h + l2 => w2 + (m - h + h2) = l2
    BY <2>3, Shifts
  <2>5. ToSend(p)' = m - h + h2
    BY <1>4, <2>2
  <2>6. Whole(p)' => w + m = l /\ w2 + h2 + l = w + h + l2
    BY <1>6, <2>2 DEF Matches
  <2> QED BY <2>2, <2>4, <2>5, <2>6 DEF Matches
<1> QED BY <1>7, <1>8

\* A call of another kind.
LEMMA NoLeg ==
  ASSUME Types, Types', LegsInv, NEW d \in Desks, NEW c, Goes(d, c),
         UNCHANGED <<out, in, returned, sentBack, gone, halved>>,
         call[d].op \notin {"transfer", "return"}, c.op \notin {"transfer", "return"}
  PROVE  LegsInv'
<1>1. \A p \in Products : /\ Coming(c, p) = 0 /\ Coming(call[d], p) = 0
                          /\ Sending(c, p) = 0 /\ Sending(call[d], p) = 0
  BY DEF Coming, Sending
<1>2. \A p \in Products : Whole(p)' => Whole(p)
  BY DEF Whole
<1>3. \A p \in Products :
        /\ in'[p] + Coming(c, p) + out[p] = in[p] + Coming(call[d], p) + out'[p]
        /\ sentBack'[p] + Sending(c, p) + returned[p] =
             sentBack[p] + Sending(call[d], p) + returned'[p]
  BY <1>1
<1>4. \A p \in Products :
        /\ in[p] + Coming(call[d], p) + out[p] \in Nat
        /\ sentBack[p] + Sending(call[d], p) + returned[p] \in Nat
  BY <1>1, LegsTyped
<1> QED BY <1>2, <1>3, <1>4, LegsStep

LEMMA NoCallLegs ==
  ASSUME Types, Types', LegsInv, UNCHANGED <<out, in, returned, sentBack, halved, call>>,
         gone \subseteq gone'
  PROVE  LegsInv'
<1>1. \A p \in Products : ToCome(p)' = ToCome(p) /\ ToSend(p)' = ToSend(p)
  BY DEF ToCome, ToSend, Coming, Sending
<1>2. \A p \in Products : Whole(p)' => Whole(p)
  BY DEF Whole
<1> QED BY <1>1, <1>2, LegsInvIs DEF LegsInv, Matches

LEMMA InterruptLegs ==
  ASSUME Types, Types', LegsInv, NEW d \in Desks, Interrupt(d)
  PROVE  LegsInv'
<1> DEFINE c == call[d]
<1>1. /\ Goes(d, Idle) /\ UNCHANGED <<out, in, returned, sentBack, gone>>
      /\ halved' = IF c.op = "transfer" THEN halved \cup {c.product}
                   ELSE IF c.op = "return" THEN halved \cup DOMAIN c.delivery
                   ELSE halved
  BY DEF Interrupt, Ends, journal
<1>2. \A p \in Products : Whole(p)' => Whole(p) /\ Coming(c, p) = 0 /\ Sending(c, p) = 0
  BY <1>1 DEF Whole, Coming, Sending
<1>3. \A p \in Products : Coming(Idle, p) = 0 /\ Sending(Idle, p) = 0
  BY IdleHasNoShare
<1>4. \A p \in Products : Coming(c, p) \in Nat /\ Sending(c, p) \in Nat
  BY ShareIsNat DEF Types, CallsOK
<1>5. \A p \in Products :
        in[p] \in Nat /\ out[p] \in Nat /\ sentBack[p] \in Nat /\ returned[p] \in Nat
  BY LegsTyped
<1> HIDE DEF c
<1>6. \A p \in Products :
        /\ in'[p] + Coming(Idle, p) + out[p] <= in[p] + Coming(c, p) + out'[p]
        /\ sentBack'[p] + Sending(Idle, p) + returned[p] <=
             sentBack[p] + Sending(c, p) + returned'[p]
        /\ Whole(p)' => /\ in'[p] + Coming(Idle, p) + out[p] = in[p] + Coming(c, p) + out'[p]
                        /\ sentBack'[p] + Sending(Idle, p) + returned[p] =
                             sentBack[p] + Sending(c, p) + returned'[p]
  BY <1>1, <1>2, <1>3, <1>4, <1>5
<1> QED BY <1>1, <1>2, <1>6, LegsStep DEF c

LEMMA TransferOutLegs ==
  ASSUME Types, Types', LegsInv, NEW d \in Desks, NEW p \in Products, NEW n \in 1 .. MaxUnits,
         TransferOut(d, p, n)
  PROVE  LegsInv'
<1> DEFINE c == [op |-> "transfer", step |-> "in", product |-> p, units |-> n]
<1>1. /\ Goes(d, c) /\ out' = [out EXCEPT ![p] = @ + n]
      /\ UNCHANGED <<in, returned, sentBack, gone, halved>>
  BY DEF TransferOut, Leaves, flaws
<1>2. /\ out'[p] = out[p] + n /\ \A q \in Products : q # p => out'[q] = out[q]
  BY <1>1 DEF Types, TypeOK
<1>3. \A q \in Products : /\ Coming(c, q) = IF q = p THEN n ELSE 0
                          /\ Sending(c, q) = 0
                          /\ Coming(call[d], q) = 0 /\ Sending(call[d], q) = 0
  BY DEF Coming, Sending, TransferOut, Free, Idle
<1>4. \A q \in Products :
        in[q] \in Nat /\ out[q] \in Nat /\ sentBack[q] \in Nat /\ returned[q] \in Nat
  BY LegsTyped
<1> HIDE DEF c
<1>5. \A q \in Products :
        /\ in'[q] + Coming(c, q) + out[q] <= in[q] + Coming(call[d], q) + out'[q]
        /\ sentBack'[q] + Sending(c, q) + returned[q] <=
             sentBack[q] + Sending(call[d], q) + returned'[q]
        /\ Whole(q)' => /\ in'[q] + Coming(c, q) + out[q] = in[q] + Coming(call[d], q) + out'[q]
                        /\ sentBack'[q] + Sending(c, q) + returned[q] =
                             sentBack[q] + Sending(call[d], q) + returned'[q]
  BY <1>1, <1>2, <1>3, <1>4
<1>6. \A q \in Products : Whole(q)' => Whole(q)
  BY <1>1 DEF Whole
<1> QED BY <1>1, <1>5, <1>6, LegsStep

LEMMA LeavesAdds ==
  ASSUME NEW total \in [Products -> Nat], NEW p \in Products, NEW n
  PROVE  /\ p \in gone => Leaves(total, p, n) = total
         /\ p \notin gone => Leaves(total, p, n)[p] = total[p] + n
         /\ \A q \in Products : q # p => Leaves(total, p, n)[q] = total[q]
BY DEF Leaves

LEMMA TransferInLegs ==
  ASSUME Types, Types', LegsInv, NEW d \in Desks, TransferIn(d)
  PROVE  LegsInv'
<1>1. PICK p \in Products, n \in Nat :
        call[d].op = "transfer" /\ call[d].product = p /\ call[d].units = n
  BY DEF Types, CallsOK, CallOK, TransferIn, At
<1>2. /\ Goes(d, Idle) /\ in' = Leaves(in, p, n)
      /\ UNCHANGED <<out, returned, sentBack, gone, halved>>
  BY <1>1 DEF TransferIn, Ends, flaws
<1>3. /\ p \in gone => in'[p] = in[p]
      /\ p \notin gone => in'[p] = in[p] + n
      /\ \A q \in Products : q # p => in'[q] = in[q]
  <2>1. in \in [Products -> Nat]
    BY DEF Types, TypeOK
  <2> QED BY <1>2, <2>1, LeavesAdds
<1>4. \A q \in Products : /\ Coming(call[d], q) = IF q = p THEN n ELSE 0
                          /\ Sending(call[d], q) = 0
                          /\ Coming(Idle, q) = 0 /\ Sending(Idle, q) = 0
  BY <1>1, IdleHasNoShare DEF Coming, Sending
<1>5. \A q \in Products :
        in[q] \in Nat /\ out[q] \in Nat /\ sentBack[q] \in Nat /\ returned[q] \in Nat
  BY LegsTyped
<1>6. \A q \in Products : Whole(q)' => Whole(q) /\ q \notin gone
  BY <1>2 DEF Whole
<1>7. \A q \in Products :
        /\ in'[q] + Coming(Idle, q) + out[q] <= in[q] + Coming(call[d], q) + out'[q]
        /\ sentBack'[q] + Sending(Idle, q) + returned[q] <=
             sentBack[q] + Sending(call[d], q) + returned'[q]
        /\ Whole(q)' => /\ in'[q] + Coming(Idle, q) + out[q] = in[q] + Coming(call[d], q) + out'[q]
                        /\ sentBack'[q] + Sending(Idle, q) + returned[q] =
                             sentBack[q] + Sending(call[d], q) + returned'[q]
  BY <1>2, <1>3, <1>4, <1>5, <1>6
<1> QED BY <1>2, <1>6, <1>7, LegsStep

LEMMA AddReturnLegs ==
  ASSUME Types, Types', LegsInv, NEW d \in Desks, NEW lines \in Deliveries, AddReturn(d, lines)
  PROVE  LegsInv'
<1> DEFINE c == [op |-> "return", step |-> "line", delivery |-> lines]
<1>1. /\ Goes(d, c) /\ UNCHANGED <<out, in, sentBack, gone, halved>>
      /\ returned' = [p \in Products |-> returned[p] + IF p \in DOMAIN lines THEN lines[p] ELSE 0]
  BY DEF AddReturn, flaws
<1>2. \A q \in Products : /\ returned'[q] = returned[q] + Sending(c, q)
                          /\ Coming(c, q) = 0
                          /\ Coming(call[d], q) = 0 /\ Sending(call[d], q) = 0
  BY <1>1 DEF Coming, Sending, AddReturn, Free, Idle
<1>3. \A q \in Products :
        in[q] \in Nat /\ out[q] \in Nat /\ sentBack[q] \in Nat /\ returned[q] \in Nat
  BY LegsTyped
<1>4. \A q \in Products : Sending(c, q) \in Nat
  BY DeliveriesAre DEF Sending, IsDelivery
<1> HIDE DEF c
<1>5. \A q \in Products :
        /\ in'[q] + Coming(c, q) + out[q] <= in[q] + Coming(call[d], q) + out'[q]
        /\ sentBack'[q] + Sending(c, q) + returned[q] <=
             sentBack[q] + Sending(call[d], q) + returned'[q]
        /\ Whole(q)' => /\ in'[q] + Coming(c, q) + out[q] = in[q] + Coming(call[d], q) + out'[q]
                        /\ sentBack'[q] + Sending(c, q) + returned[q] =
                             sentBack[q] + Sending(call[d], q) + returned'[q]
  BY <1>1, <1>2, <1>3, <1>4
<1>6. \A q \in Products : Whole(q)' => Whole(q)
  BY <1>1 DEF Whole
<1> QED BY <1>1, <1>5, <1>6, LegsStep

LEMMA SendBackLegs ==
  ASSUME Types, Types', LegsInv, NEW d \in Desks, NEW p \in Products, SendBack(d, p)
  PROVE  LegsInv'
<1>1. PICK lines : lines = call[d].delivery /\ IsDelivery(lines) /\ call[d].op = "return"
  BY DEF Types, CallsOK, CallOK, SendBack, At
<1>2. /\ p \in DOMAIN lines /\ sentBack' = Leaves(sentBack, p, lines[p])
      /\ UNCHANGED <<out, in, returned, gone, halved>>
  BY <1>1 DEF SendBack, flaws
<1>3. PICK n \in Nat : n = lines[p]
  BY <1>1, <1>2 DEF IsDelivery
<1>4. PICK c : /\ Goes(d, c)
               /\ \A q \in Products : Coming(c, q) = 0 /\ Sending(c, q) =
                    IF q \in DOMAIN lines \ {p} THEN lines[q] ELSE 0
  <2>1. CASE DOMAIN lines = {p}
    <3>1. Goes(d, Idle)
      BY <1>1, <2>1 DEF SendBack, Ends
    <3> QED BY <2>1, <3>1, IdleHasNoShare
  <2>2. CASE DOMAIN lines # {p}
    <3>1. Goes(d, [op |-> "return", step |-> "line", delivery |-> Without(lines, p)])
      BY <1>1, <2>2 DEF SendBack
    <3> QED BY <3>1 DEF Coming, Sending, Without
  <2> QED BY <2>1, <2>2
<1>5. \A q \in Products : /\ Coming(call[d], q) = 0
                          /\ Sending(call[d], q) = IF q \in DOMAIN lines THEN lines[q] ELSE 0
                          /\ q # p => Sending(c, q) = Sending(call[d], q)
  BY <1>1, <1>4 DEF Coming, Sending
<1>6. /\ p \in gone => sentBack'[p] = sentBack[p]
      /\ p \notin gone => sentBack'[p] = sentBack[p] + n
      /\ \A q \in Products : q # p => sentBack'[q] = sentBack[q]
  <2>1. sentBack \in [Products -> Nat]
    BY DEF Types, TypeOK
  <2> QED BY <1>2, <1>3, <2>1, LeavesAdds
<1>7. \A q \in Products :
        /\ in[q] \in Nat /\ out[q] \in Nat /\ sentBack[q] \in Nat /\ returned[q] \in Nat
        /\ Sending(call[d], q) \in Nat
  BY LegsTyped, ShareIsNat DEF Types, CallsOK
<1>8. \A q \in Products : Whole(q)' => Whole(q) /\ q \notin gone
  BY <1>2 DEF Whole
<1>9. Sending(c, p) = 0 /\ Sending(call[d], p) = n
  BY <1>2, <1>3, <1>4, <1>5
<1>10. \A q \in Products :
        /\ in'[q] + Coming(c, q) + out[q] <= in[q] + Coming(call[d], q) + out'[q]
        /\ sentBack'[q] + Sending(c, q) + returned[q] <=
             sentBack[q] + Sending(call[d], q) + returned'[q]
        /\ Whole(q)' => /\ in'[q] + Coming(c, q) + out[q] = in[q] + Coming(call[d], q) + out'[q]
                        /\ sentBack'[q] + Sending(c, q) + returned[q] =
                             sentBack[q] + Sending(call[d], q) + returned'[q]
  <2> SUFFICES ASSUME NEW q \in Products
      PROVE /\ in'[q] + Coming(c, q) + out[q] = in[q] + Coming(call[d], q) + out'[q]
            /\ in[q] + Coming(call[d], q) + out'[q] \in Nat
            /\ sentBack'[q] + Sending(c, q) + returned[q] <=
                 sentBack[q] + Sending(call[d], q) + returned'[q]
            /\ q \notin gone => sentBack'[q] + Sending(c, q) + returned[q] =
                                  sentBack[q] + Sending(call[d], q) + returned'[q]
    BY <1>8
  <2>1. in'[q] = in[q] /\ out'[q] = out[q] /\ returned'[q] = returned[q]
    BY <1>2
  <2>2. CASE q = p
    BY <1>4, <1>5, <1>6, <1>7, <1>9, <2>1, <2>2
  <2>3. CASE q # p
    BY <1>4, <1>5, <1>6, <1>7, <2>1, <2>3
  <2> QED BY <2>2, <2>3
<1> QED BY <1>4, <1>8, <1>10, LegsStep

LEMMA LegsInit == Init => LegsInv
<1> SUFFICES ASSUME Init, NEW p \in Products
             PROVE  /\ Matches(in[p], ToCome(p), out[p], Whole(p))
                    /\ Matches(sentBack[p], ToSend(p), returned[p], Whole(p))
  BY DEF LegsInv
<1>1. CallsOK
  BY TypesInit DEF Types
<1>2. ~Moving(p)
  BY DEF Init, Moving, Idle
<1>3. ToCome(p) = 0 /\ ToSend(p) = 0
  BY <1>1, <1>2, OwedIsNat
<1>4. in[p] = 0 /\ out[p] = 0 /\ sentBack[p] = 0 /\ returned[p] = 0
  BY DEF Init, Nothing
<1> QED BY <1>3, <1>4 DEF Matches

LEMMA LegsNext == Types /\ Types' /\ LegsInv /\ [Next]_vars => LegsInv'
<1> SUFFICES ASSUME Types, Types', LegsInv, [Next]_vars PROVE LegsInv'
  OBVIOUS
<1>0. Idle.op \notin {"transfer", "return"}
  BY DEF Idle
<1>b. \A step, o, seen, no, received, l, p, had :
        Receipt(step, o, seen, no, received, l, p, had).op = "receive"
  BY DEF Receipt
<1>1. ASSUME NEW d \in Desks,
             \/ \E o \in Orders : ReadSequence(d, o)
             \/ WriteSequence(d)
             \/ \E status \in {"draft", "ordered"} : AddOrder(d, status)
      PROVE  LegsInv'
  <2>1. UNCHANGED <<out, in, returned, sentBack, gone, halved>>
    BY <1>1 DEF ReadSequence, WriteSequence, AddOrder, desk, journal, flaws
  <2>2. ASSUME NEW o \in Orders, ReadSequence(d, o)
        PROVE  LegsInv'
    <3>1. call[d].op \notin {"transfer", "return"}
      BY <2>2 DEF ReadSequence, Free, Idle
    <3>2. PICK c : Goes(d, c) /\ c.op \notin {"transfer", "return"}
      BY <2>2 DEF ReadSequence
    <3> QED BY <2>1, <3>1, <3>2, NoLeg
  <2>3. CASE WriteSequence(d)
    <3>1. call[d].op \notin {"transfer", "return"}
      BY <2>3 DEF WriteSequence, At
    <3>2. PICK c : Goes(d, c) /\ c.op \notin {"transfer", "return"}
      BY <2>3 DEF WriteSequence
    <3> QED BY <2>1, <3>1, <3>2, NoLeg
  <2>4. ASSUME NEW status \in {"draft", "ordered"}, AddOrder(d, status)
        PROVE  LegsInv'
    <3>1. call[d].op \notin {"transfer", "return"}
      BY <2>4 DEF AddOrder, At
    <3>2. Goes(d, Idle)
      BY <2>4 DEF AddOrder, Ends
    <3> QED BY <1>0, <2>1, <3>1, <3>2, NoLeg
  <2> QED BY <1>1, <2>2, <2>3, <2>4
<1>2. ASSUME NEW d \in Desks,
             \/ \E o \in Orders, l \in Deliveries : GetOrder(d, o, l)
             \/ \E p \in Products : BookLine(d, p) \/ SkipLine(d, p)
             \/ \E named \in BOOLEAN : ReadBatches(d, named)
             \/ AppendBatch(d) \/ PutOrder(d)
      PROVE  LegsInv'
  <2>1. UNCHANGED <<out, in, returned, sentBack, gone, halved>>
    BY <1>2 DEF GetOrder, BookLine, SkipLine, ReadBatches, AppendBatch, PutOrder, desk, journal, flaws
  <2>2. ASSUME NEW o \in Orders, NEW l \in Deliveries, GetOrder(d, o, l)
        PROVE  LegsInv'
    <3>1. call[d].op \notin {"transfer", "return"}
      BY <2>2 DEF GetOrder, Free, Idle
    <3>2. PICK c : Goes(d, c) /\ c.op \notin {"transfer", "return"}
      BY <1>b, <2>2 DEF GetOrder
    <3> QED BY <2>1, <3>1, <3>2, NoLeg
  <2>3. ASSUME NEW p \in Products, BookLine(d, p) \/ SkipLine(d, p)
        PROVE  LegsInv'
    <3>1. call[d].op \notin {"transfer", "return"}
      BY <2>3 DEF BookLine, SkipLine, At
    <3>2. PICK c : Goes(d, c) /\ c.op \notin {"transfer", "return"}
      BY <1>b, <2>3 DEF BookLine, SkipLine
    <3> QED BY <2>1, <3>1, <3>2, NoLeg
  <2>4. ASSUME NEW named \in BOOLEAN, ReadBatches(d, named)
        PROVE  LegsInv'
    <3>1. call[d].op \notin {"transfer", "return"}
      BY <2>4 DEF ReadBatches, At
    <3>2. PICK c : Goes(d, c) /\ c.op \notin {"transfer", "return"}
      BY <1>b, <2>4 DEF ReadBatches
    <3> QED BY <2>1, <3>1, <3>2, NoLeg
  <2>5. CASE AppendBatch(d)
    <3>1. call[d].op \notin {"transfer", "return"}
      BY <2>5 DEF AppendBatch, At
    <3>2. PICK c : Goes(d, c) /\ c.op \notin {"transfer", "return"}
      BY <1>b, <2>5 DEF AppendBatch
    <3> QED BY <2>1, <3>1, <3>2, NoLeg
  <2>6. CASE PutOrder(d)
    <3>1. call[d].op \notin {"transfer", "return"}
      BY <2>6 DEF PutOrder, At
    <3>2. Goes(d, Idle)
      BY <2>6 DEF PutOrder, Ends
    <3> QED BY <1>0, <2>1, <3>1, <3>2, NoLeg
  <2> QED BY <1>2, <2>2, <2>3, <2>4, <2>5, <2>6
<1>3. ASSUME NEW d \in Desks,
             \/ \E p \in Products, n \in 1 .. MaxUnits : TransferOut(d, p, n)
             \/ TransferIn(d)
             \/ \E lines \in Deliveries : AddReturn(d, lines)
             \/ \E p \in Products : SendBack(d, p)
             \/ Interrupt(d)
      PROVE  LegsInv'
  BY <1>3, TransferOutLegs, TransferInLegs, AddReturnLegs, SendBackLegs, InterruptLegs
<1>4. CASE \/ \E o \in Orders : CancelOrder(o)
           \/ \E p \in Products : RemoveProduct(p)
           \/ Pull
           \/ UNCHANGED vars
  <2>1. UNCHANGED <<out, in, returned, sentBack, halved, call>> /\ gone \subseteq gone'
    BY <1>4 DEF CancelOrder, RemoveProduct, Pull, vars, journal, flaws
  <2> QED BY <2>1, NoCallLegs
<1> QED BY <1>1, <1>2, <1>3, <1>4 DEF Next

(* transferStock, createPurchaseReturn: the second leg of a transfer never *)
(* exceeds the first and what is sent back never what was recorded, and    *)
(* they are equal when no call is at it, for any number of tabs; unless a  *)
(* call was cut short or the product went.                                 *)
THEOREM LegsAlwaysMatch == Spec => []LegsMatch
<1>1. Spec => []Types
  BY TypesInit, TypesNext, PTL DEF Spec
<1>2. Spec => []LegsInv
  BY <1>1, LegsInit, LegsNext, PTL DEF Spec
<1>3. Types /\ LegsInv => LegsMatch
  <2> SUFFICES ASSUME Types, LegsInv, NEW p \in Products
               PROVE  /\ in[p] <= out[p] /\ sentBack[p] <= returned[p]
                      /\ Whole(p) /\ ~Moving(p) => in[p] = out[p] /\ sentBack[p] = returned[p]
    BY DEF LegsMatch, Whole
  <2>1. /\ ToCome(p) \in Nat /\ ToSend(p) \in Nat
        /\ ~Moving(p) => ToCome(p) = 0 /\ ToSend(p) = 0
    BY OwedIsNat DEF Types
  <2>2. in[p] \in Nat /\ out[p] \in Nat /\ sentBack[p] \in Nat /\ returned[p] \in Nat
    BY DEF Types, TypeOK
  <2>3. /\ Matches(in[p], ToCome(p), out[p], Whole(p))
        /\ Matches(sentBack[p], ToSend(p), returned[p], Whole(p))
    BY DEF LegsInv
  <2> QED BY <2>1, <2>2, <2>3 DEF Matches
<1> QED BY <1>1, <1>2, <1>3, PTL
===============================================================================
