-------------------------- MODULE CatalogueSync_proofs --------------------------
(***************************************************************************)
(* Proofs about CatalogueSync, for every set of products and tabs and      *)
(* whatever the bounds on versions and late requests are.                  *)
(***************************************************************************)
EXTENDS CatalogueSync, TLAPS

USE CatalogueSyncAssumption

-------------------------------------------------------------------------------
(* Type correctness *)

LEMMA ListedIsCalls ==
  ASSUME TypeOK, NEW op \in {"POST", "PUT", "DELETE"}, NEW ids \in SUBSET Products
  PROVE  Listed(op, ids) \in SUBSET Call
BY DEF TypeOK, Row, Listed, Call

LEMMA CycleInIsCycle ==
  ASSUME NEW phase \in {"idle", "create", "edit", "delete", "pull", "seed"},
         NEW todo \in SUBSET Call
  PROVE  CycleIn(phase, todo) \in Cycle
BY DEF CycleIn, Cycle

LEMMA RowOfIsRow == \A v \in 0 .. MaxVersion : RowOf(v) \in Row
BY DEF RowOf, Row

LEMMA InitTypeOK == Init => TypeOK
<1> SUFFICES ASSUME Init
             PROVE  TypeOK
  OBVIOUS
<1>1. Idle \in Cycle /\ NoRow \in Row
  BY CycleInIsCycle, RowOfIsRow DEF Idle, NoRow
<1> QED
  BY <1>1 DEF Init, TypeOK, Idle, CycleIn

\* A step that only changes the cycle of one tab.
LEMMA CycleStepTypeOK ==
  ASSUME TypeOK, NEW t \in Tabs, NEW k \in Cycle, cycle' = [cycle EXCEPT ![t] = k],
         \A c, d \in k.sent : c = d, k.sent = {} => k.reply = "none"
  PROVE  /\ cycle' \in [Tabs -> Cycle]
         /\ \A u \in Tabs : /\ \A c, d \in cycle'[u].sent : c = d
                            /\ cycle'[u].sent = {} => cycle'[u].reply = "none"
BY DEF TypeOK

LEMMA PerformTypeOK ==
  ASSUME TypeOK, NEW c \in Call, Perform(c)
  PROVE  /\ catalogue' \in [Products -> 0 .. MaxVersion]
         /\ softDeleted' \subseteq Products
         /\ unsent' \subseteq Products
         /\ UNCHANGED <<made, mine>>
BY DEF TypeOK, Call, Perform, Create, Update, Delete, Store

LEMMA WriteHereTypeOK ==
  ASSUME TypeOK, NEW p \in Products, NEW localOnly \in BOOLEAN, NEW pendingUpdate \in BOOLEAN,
         WriteHere(p, localOnly, pendingUpdate)
  PROVE  TypeOK'
<1>1. made[p] \in Nat /\ made[p] + 1 \in 0 .. MaxVersion
  BY DEF WriteHere, NewVersion, TypeOK
<1> DEFINE r == [ver |-> made[p] + 1, localOnly |-> localOnly, pendingUpdate |-> pendingUpdate]
<1>2. r \in Row
  BY <1>1 DEF Row
<1>3. products' = [products EXCEPT ![p] = r]
  BY DEF WriteHere
<1> HIDE DEF r
<1>4. products' \in [Products -> Row]
  BY <1>2, <1>3 DEF TypeOK
<1> QED
  BY <1>1, <1>4 DEF WriteHere, NewVersion, TypeOK, server

LEMMA ClearFlagTypeOK ==
  ASSUME TypeOK, NEW p \in Products, NEW flag \in {"localOnly", "pendingUpdate"},
         ClearFlag(p, flag)
  PROVE  products' \in [Products -> Row]
<1>1. CASE flag = "localOnly"
  BY <1>1 DEF ClearFlag, TypeOK, Row
<1>2. CASE flag = "pendingUpdate"
  BY <1>2 DEF ClearFlag, TypeOK, Row
<1> QED
  BY <1>1, <1>2

LEMMA StepTypeOK == TypeOK /\ [Next]_vars => TypeOK'
<1> SUFFICES ASSUME TypeOK, [Next]_vars
             PROVE  TypeOK'
  OBVIOUS
<1>a. cycle \in [Tabs -> Cycle]
  BY DEF TypeOK
<1>1. ASSUME NEW p \in Products, AddProduct(p) \/ UpdateProduct(p)
      PROVE  TypeOK'
  <2>1. products[p].localOnly \in BOOLEAN /\ (~products[p].localOnly) \in BOOLEAN
    BY DEF TypeOK, Row
  <2> QED
    BY <1>1, <2>1, WriteHereTypeOK DEF AddProduct, UpdateProduct
<1>2. ASSUME NEW p \in Products, DeleteProduct(p)
      PROVE  TypeOK'
  <2>1. NoRow \in Row
    BY RowOfIsRow DEF NoRow
  <2> QED
    BY <1>2, <2>1 DEF DeleteProduct, TypeOK, server, history
<1>3. ASSUME NEW p \in Products, ElsewhereWrite(p) \/ ElsewhereDelete(p)
      PROVE  TypeOK'
  BY <1>3 DEF ElsewhereWrite, ElsewhereDelete, NewVersion, TypeOK, till, history
<1>4. ASSUME NEW t \in Tabs, BeginCycle(t)
      PROVE  TypeOK'
  <2>1. ListUnpushedProducts \in SUBSET Call
    BY ListedIsCalls DEF ListUnpushedProducts
  <2>2. CycleIn("create", ListUnpushedProducts) \in Cycle
    BY <2>1, CycleInIsCycle
  <2> QED
    BY <1>4, <2>2, CycleStepTypeOK
    DEF BeginCycle, CycleIn, TypeOK, till, server, history
<1>5. ASSUME NEW t \in Tabs, NextPhase(t)
      PROVE  TypeOK'
  <2>1. /\ ListEditedProducts \in SUBSET Call
        /\ ListPendingProductDeletes \in SUBSET Call
    BY ListedIsCalls DEF ListEditedProducts, ListPendingProductDeletes, TypeOK
  <2>2. PICK phase \in {"edit", "delete", "pull"}, todo \in SUBSET Call :
             cycle' = [cycle EXCEPT ![t] = CycleIn(phase, todo)]
    BY <1>5, <2>1 DEF NextPhase
  <2>3. CycleIn(phase, todo) \in Cycle
    BY CycleInIsCycle
  <2> QED
    BY <1>5, <2>2, <2>3, CycleStepTypeOK
    DEF NextPhase, CycleIn, TypeOK, till, server, history
<1>6. ASSUME NEW t \in Tabs, SendNext(t)
      PROVE  TypeOK'
  <2>1. PICK c \in cycle[t].todo :
             cycle' = [cycle EXCEPT ![t].todo = @ \ {c}, ![t].sent = {c}]
    BY <1>6 DEF SendNext
  <2>2. c \in Call /\ cycle[t] \in Cycle
    BY <1>a DEF Cycle
  <2> DEFINE k == [cycle[t] EXCEPT !.todo = @ \ {c}, !.sent = {c}]
  <2>3. k \in Cycle /\ k.sent = {c}
    BY <2>2 DEF Cycle
  <2>4. cycle' = [cycle EXCEPT ![t] = k]
    BY <2>1
  <2> HIDE DEF k
  <2> QED
    BY <1>6, <2>3, <2>4, CycleStepTypeOK DEF SendNext, TypeOK, till, server, history
<1>7. ASSUME NEW t \in Tabs, Handle(t)
      PROVE  TypeOK'
  <2>1. PICK c \in cycle[t].sent, reply \in {"ok", "refused"} :
             Perform(c) /\ cycle' = [cycle EXCEPT ![t].reply = reply]
    BY <1>7 DEF Handle
  <2>2. c \in Call /\ cycle[t] \in Cycle
    BY <1>a DEF Cycle
  <2> DEFINE k == [cycle[t] EXCEPT !.reply = reply]
  <2>3. k \in Cycle /\ k.sent = cycle[t].sent
    BY <2>2 DEF Cycle
  <2>4. cycle' = [cycle EXCEPT ![t] = k]
    BY <2>1
  <2>5. \A d, e \in cycle[t].sent : d = e
    BY DEF TypeOK
  <2> HIDE DEF k
  <2>6. /\ cycle' \in [Tabs -> Cycle]
        /\ \A u \in Tabs : /\ \A d, e \in cycle'[u].sent : d = e
                           /\ cycle'[u].sent = {} => cycle'[u].reply = "none"
    BY <2>1, <2>3, <2>4, <2>5, CycleStepTypeOK
  <2> QED
    BY <1>7, <2>1, <2>2, <2>6, PerformTypeOK DEF Handle, TypeOK, till
<1>8. ASSUME NEW t \in Tabs, Refuse(t)
      PROVE  TypeOK'
  <2> DEFINE k == [cycle[t] EXCEPT !.reply = "refused"]
  <2>1. k \in Cycle /\ k.sent = cycle[t].sent /\ cycle' = [cycle EXCEPT ![t] = k]
    BY <1>8, <1>a DEF Refuse, Cycle
  <2>2. cycle[t].sent # {} /\ \A d, e \in cycle[t].sent : d = e
    BY <1>8 DEF Refuse, TypeOK
  <2> HIDE DEF k
  <2> QED
    BY <1>8, <2>1, <2>2, CycleStepTypeOK DEF Refuse, TypeOK, till, server, history
<1>9. ASSUME NEW t \in Tabs, ReceiveReply(t)
      PROVE  TypeOK'
  <2> DEFINE k == [cycle[t] EXCEPT !.sent = {}, !.reply = "none"]
  <2>1. k \in Cycle /\ k.sent = {} /\ k.reply = "none" /\ cycle' = [cycle EXCEPT ![t] = k]
    BY <1>9, <1>a DEF ReceiveReply, Cycle
  <2>2. PICK c \in cycle[t].sent :
          \/ UNCHANGED till
          \/ \E flag \in {"localOnly", "pendingUpdate"} :
               ClearFlag(c.id, flag) /\ UNCHANGED deletedProducts
          \/ deletedProducts' = deletedProducts \ {c.id} /\ UNCHANGED products
    BY <1>9 DEF ReceiveReply, Acknowledge
  <2>3. c.id \in Products
    BY <1>a DEF Cycle, Call
  <2>4. products' \in [Products -> Row] /\ deletedProducts' \subseteq Products
    BY <2>2, <2>3, ClearFlagTypeOK DEF TypeOK, till
  <2> HIDE DEF k
  <2> QED
    BY <1>9, <2>1, <2>4, CycleStepTypeOK DEF ReceiveReply, TypeOK, server, history
<1>10. ASSUME NEW t \in Tabs, LoseCall(t)
       PROVE  TypeOK'
  <2> DEFINE k == [cycle[t] EXCEPT !.sent = {}, !.reply = "none"]
  <2>1. k \in Cycle /\ k.sent = {} /\ k.reply = "none" /\ cycle' = [cycle EXCEPT ![t] = k]
    BY <1>10, <1>a DEF LoseCall, Cycle
  <2>2. late' \subseteq Call
    BY <1>10, <1>a DEF LoseCall, Abandon, TypeOK, Cycle
  <2> HIDE DEF k
  <2> QED
    BY <1>10, <2>1, <2>2, CycleStepTypeOK DEF LoseCall, TypeOK, till, server, history
<1>11. ASSUME NEW t \in Tabs, LosePull(t) \/ CloseTab(t)
       PROVE  TypeOK'
  <2>1. Idle \in Cycle /\ cycle' = [cycle EXCEPT ![t] = Idle]
    BY <1>11, CycleInIsCycle DEF LosePull, CloseTab, Idle
  <2>2. late' \subseteq Call
    BY <1>11, <1>a DEF LosePull, CloseTab, Abandon, TypeOK, Cycle
  <2>3. Idle.sent = {} /\ Idle.reply = "none"
    BY DEF Idle, CycleIn
  <2> QED
    BY <1>11, <2>1, <2>2, <2>3, CycleStepTypeOK
    DEF LosePull, CloseTab, TypeOK, till, server, history
<1>12. ASSUME NEW t \in Tabs, ListForBusiness(t)
       PROVE  TypeOK'
  <2> DEFINE list == [p \in Products |-> IF Live(p) THEN catalogue[p] ELSE 0]
             k == [cycle[t] EXCEPT !.phase = "seed", !.got = list]
  <2>1. list \in [Products -> 0 .. MaxVersion]
    BY DEF TypeOK
  <2>2. cycle' = [cycle EXCEPT ![t] = k]
    BY <1>12 DEF ListForBusiness
  <2> HIDE DEF list
  <2>3. k \in Cycle /\ k.sent = cycle[t].sent /\ k.reply = cycle[t].reply
    BY <1>a, <2>1 DEF Cycle
  <2> HIDE DEF k
  <2>4. (\A c, d \in k.sent : c = d) /\ (k.sent = {} => k.reply = "none")
    BY <2>3 DEF TypeOK
  <2> QED
    BY <1>12, <2>2, <2>3, <2>4, CycleStepTypeOK DEF ListForBusiness, TypeOK, till, server, history
<1>13. ASSUME NEW t \in Tabs, SeedProducts(t)
       PROVE  TypeOK'
  <2>1. Idle \in Cycle /\ Idle.sent = {} /\ Idle.reply = "none"
    BY CycleInIsCycle DEF Idle, CycleIn
  <2>2. cycle[t].got \in [Products -> 0 .. MaxVersion]
    BY <1>a DEF Cycle
  <2>3. \A p \in Products : RowOf(cycle[t].got[p]) \in Row /\ NoRow \in Row
    BY <2>2, RowOfIsRow DEF NoRow
  <2>4. products' \in [Products -> Row]
    BY <1>13, <2>3 DEF SeedProducts, TypeOK
  <2> QED
    BY <1>13, <2>1, <2>4, CycleStepTypeOK DEF SeedProducts, TypeOK, server, history
<1>14. ASSUME NEW c \in Call, HandleLate(c)
       PROVE  TypeOK'
  BY <1>14, PerformTypeOK DEF HandleLate, TypeOK, till
<1>15. CASE UNCHANGED vars
  BY <1>15 DEF vars, till, server, history, TypeOK
<1> QED
  BY <1>1, <1>2, <1>3, <1>4, <1>5, <1>6, <1>7, <1>8, <1>9, <1>10, <1>11, <1>12, <1>13,
     <1>14, <1>15 DEF Next, Operate, CycleStep, Fault

\* The variables keep their types, and no tab ever awaits two calls at a time.
THEOREM TypeCorrect == Spec => []TypeOK
BY InitTypeOK, StepTypeOK, PTL DEF Spec

-------------------------------------------------------------------------------
(* What protects local work *)

\* A create or update on its way carries a version of a product that exists somewhere.
Genuine(c) == c.op # "DELETE" => c.ver # 0 /\ made[c.id] # 0

(* What makes the safety properties inductive: only genuine calls are on   *)
(* their way, a create answered "ok" or a product in a list is stored, and *)
(* nothing is stored or shown that was never made.                         *)
CallInv ==
  /\ \A t \in Tabs : \A c \in cycle[t].todo \cup cycle[t].sent : Genuine(c)
  /\ \A c \in late : Genuine(c)
  /\ \A t \in Tabs : \A c \in cycle[t].sent :
       c.op = "POST" /\ cycle[t].reply = "ok" => catalogue[c.id] # 0

StoreInv ==
  /\ \A t \in Tabs, p \in Products : cycle[t].got[p] # 0 => catalogue[p] # 0
  /\ \A p \in Products : Exists(p) \/ catalogue[p] # 0 => made[p] # 0
  /\ \A p \in softDeleted : catalogue[p] # 0

RowInv == FlaggedRowIsMine /\ TombstoneHidden /\ KnownToServer

IInv == TypeOK /\ CallInv /\ StoreInv /\ RowInv

LEMMA InitIInv == Init => IInv
<1> SUFFICES ASSUME Init
             PROVE  IInv
  OBVIOUS
<1>1. TypeOK
  BY InitTypeOK
<1>2. CallInv /\ StoreInv
  BY DEF Init, CallInv, StoreInv, Idle, CycleIn, Exists, NoRow, RowOf
<1>3. RowInv
  BY DEF Init, RowInv, FlaggedRowIsMine, TombstoneHidden, KnownToServer, Flagged, Exists,
         NoRow, RowOf
<1> QED
  BY <1>1, <1>2, <1>3 DEF IInv

\* Calls are listed from rows that exist, so they are genuine.
LEMMA ListedIsGenuine ==
  ASSUME IInv
  PROVE  \A c \in ListUnpushedProducts \cup ListEditedProducts \cup ListPendingProductDeletes :
           Genuine(c)
<1>1. ASSUME NEW p \in Products, Flagged(p)
      PROVE  products[p].ver # 0 /\ made[p] # 0
  BY <1>1 DEF IInv, RowInv, FlaggedRowIsMine, StoreInv, Exists
<1>2. \A c \in ListUnpushedProducts \cup ListEditedProducts : Genuine(c)
  BY <1>1 DEF ListUnpushedProducts, ListEditedProducts, Listed, Genuine, Flagged
<1>3. \A c \in ListPendingProductDeletes : Genuine(c)
  BY DEF ListPendingProductDeletes, Listed, Genuine
<1> QED
  BY <1>2, <1>3

\* What carrying out a call does to the server's catalogue.
LEMMA PerformEffect ==
  ASSUME IInv, NEW c \in Call, Genuine(c), Perform(c)
  PROVE  /\ \A p \in Products : catalogue[p] # 0 => catalogue'[p] # 0
         /\ \A p \in Products : catalogue'[p] # 0 => made[p] # 0
         /\ c.op = "POST" => catalogue'[c.id] # 0
         /\ softDeleted \subseteq softDeleted'
         /\ \A p \in softDeleted' : catalogue'[p] # 0
         /\ \A p \in softDeleted : catalogue'[p] = catalogue[p]
         /\ UNCHANGED <<made, mine>>
<1>1. /\ catalogue \in [Products -> 0 .. MaxVersion]
      /\ c.id \in Products /\ c.op \in {"POST", "PUT", "DELETE"}
      /\ softDeleted \subseteq Products
      /\ \A p \in softDeleted : catalogue[p] # 0
      /\ \A p \in Products : catalogue[p] # 0 => made[p] # 0
  BY DEF IInv, TypeOK, StoreInv, Call
<1>2. CASE c.op = "POST"
  <2>1. Create(c) /\ UNCHANGED <<made, mine>>
    BY <1>2 DEF Perform
  <2> QED
    BY <1>1, <1>2, <2>1 DEF Create, Store, Genuine
<1>3. CASE c.op = "PUT"
  <2>1. Update(c) /\ UNCHANGED <<made, mine>>
    BY <1>3 DEF Perform
  <2> QED
    BY <1>1, <1>3, <2>1 DEF Update, Store, Genuine, Live
<1>4. CASE c.op = "DELETE"
  <2>1. Delete(c) /\ UNCHANGED <<made, mine>>
    BY <1>4 DEF Perform
  <2> QED
    BY <1>1, <1>4, <2>1 DEF Delete, Live
<1> QED
  BY <1>1, <1>2, <1>3, <1>4

\* A step in which nothing made or stored is forgotten.
LEMMA CallInvKept ==
  ASSUME IInv,
         \A p \in Products : made[p] # 0 => made'[p] # 0,
         \A p \in Products : catalogue[p] # 0 => catalogue'[p] # 0,
         cycle' \in [Tabs -> Cycle], late' \subseteq Call,
         \A t \in Tabs : \A c \in cycle'[t].todo \cup cycle'[t].sent : Genuine(c),
         \A c \in late' : Genuine(c),
         \A t \in Tabs : \A c \in cycle'[t].sent :
           c.op = "POST" /\ cycle'[t].reply = "ok" => catalogue'[c.id] # 0
  PROVE  CallInv'
BY DEF CallInv, Genuine, Call, Cycle

\* A step of the cycle or the network that leaves the till and the server alone.
LEMMA QuietStep ==
  ASSUME IInv, UNCHANGED <<till, server, history>>,
         cycle' \in [Tabs -> Cycle], late' \subseteq Call,
         \A t \in Tabs : \A c \in cycle'[t].todo \cup cycle'[t].sent : Genuine(c),
         \A c \in late' : Genuine(c),
         \A t \in Tabs : \A c \in cycle'[t].sent :
           c.op = "POST" /\ cycle'[t].reply = "ok" => catalogue[c.id] # 0,
         \A t \in Tabs, p \in Products : cycle'[t].got[p] # 0 => catalogue[p] # 0
  PROVE  CallInv' /\ StoreInv' /\ RowInv'
<1>1. CallInv'
  BY CallInvKept DEF server, history
<1>2. StoreInv' /\ RowInv'
  BY DEF IInv, StoreInv, RowInv, FlaggedRowIsMine, TombstoneHidden, KnownToServer, Exists, Flagged,
         till, server, history
<1> QED
  BY <1>1, <1>2

LEMMA StepIInv == IInv /\ [Next]_vars => IInv'
<1> SUFFICES ASSUME IInv, [Next]_vars
             PROVE  CallInv' /\ StoreInv' /\ RowInv'
  BY StepTypeOK DEF IInv
<1>a. /\ TypeOK /\ TypeOK' /\ CallInv /\ StoreInv /\ RowInv
      /\ cycle \in [Tabs -> Cycle] /\ cycle' \in [Tabs -> Cycle]
      /\ late \subseteq Call /\ late' \subseteq Call
      /\ products \in [Products -> Row] /\ deletedProducts \subseteq Products
      /\ made \in [Products -> 0 .. MaxVersion] /\ mine \in [Products -> 0 .. MaxVersion]
      /\ catalogue \in [Products -> 0 .. MaxVersion]
  BY StepTypeOK DEF IInv, TypeOK
<1>b. /\ \A t \in Tabs : \A c \in cycle[t].todo \cup cycle[t].sent : Genuine(c)
      /\ \A c \in late : Genuine(c)
      /\ \A t \in Tabs : \A c \in cycle[t].sent :
           c.op = "POST" /\ cycle[t].reply = "ok" => catalogue[c.id] # 0
      /\ \A t \in Tabs, p \in Products : cycle[t].got[p] # 0 => catalogue[p] # 0
  BY <1>a DEF CallInv, StoreInv
<1>c. /\ \A p \in Products : Exists(p) \/ catalogue[p] # 0 => made[p] # 0
      /\ \A p \in softDeleted : catalogue[p] # 0
      /\ \A p \in Products : Flagged(p) => products[p].ver = mine[p] /\ mine[p] # 0
      /\ \A p \in deletedProducts : ~Exists(p)
      /\ \A p \in Products :
           (Exists(p) /\ ~products[p].localOnly) \/ p \in deletedProducts => catalogue[p] # 0
  BY <1>a DEF StoreInv, RowInv, FlaggedRowIsMine, TombstoneHidden, KnownToServer
<1>1. ASSUME NEW p \in Products, AddProduct(p) \/ UpdateProduct(p)
      PROVE  CallInv' /\ StoreInv' /\ RowInv'
  <2>1. PICK localOnly \in BOOLEAN, pendingUpdate \in BOOLEAN :
          /\ WriteHere(p, localOnly, pendingUpdate)
          /\ p \notin deletedProducts
          /\ ~localOnly => catalogue[p] # 0
    <3>1. CASE AddProduct(p)
      BY <1>c, <3>1 DEF AddProduct
    <3>2. CASE UpdateProduct(p)
      <4>1. products[p].localOnly \in BOOLEAN /\ (~products[p].localOnly) \in BOOLEAN
        BY <1>a DEF Row
      <4> QED
        BY <1>c, <3>2, <4>1 DEF UpdateProduct
    <3> QED
      BY <1>1, <3>1, <3>2
  <2>2. made[p] \in Nat /\ made[p] + 1 # 0
    BY <1>a
  <2>3. /\ products' = [products EXCEPT ![p] =
             [ver |-> made[p] + 1, localOnly |-> localOnly, pendingUpdate |-> pendingUpdate]]
        /\ mine' = [mine EXCEPT ![p] = made[p] + 1]
        /\ made' = [made EXCEPT ![p] = made[p] + 1]
        /\ UNCHANGED <<deletedProducts, cycle, late, catalogue, softDeleted>>
    BY <2>1 DEF WriteHere, NewVersion, server
  <2>4. CallInv'
    BY <1>a, <1>b, <2>2, <2>3, CallInvKept
  <2>5. StoreInv'
    BY <1>a, <1>b, <1>c, <2>2, <2>3 DEF StoreInv, Exists
  <2>6. RowInv'
    BY <1>a, <1>c, <2>1, <2>2, <2>3
    DEF RowInv, FlaggedRowIsMine, TombstoneHidden, KnownToServer, Exists, Flagged
  <2> QED
    BY <2>4, <2>5, <2>6
<1>2. ASSUME NEW p \in Products, DeleteProduct(p)
      PROVE  CallInv' /\ StoreInv' /\ RowInv'
  <2>1. CallInv'
    BY <1>2, <1>a, <1>b, CallInvKept DEF DeleteProduct, server, history
  <2>2. StoreInv'
    BY <1>2, <1>a, <1>b, <1>c DEF DeleteProduct, StoreInv, Exists, NoRow, RowOf, server, history
  <2>3. RowInv'
    BY <1>2, <1>a, <1>c
    DEF DeleteProduct, RowInv, FlaggedRowIsMine, TombstoneHidden, KnownToServer, Exists, Flagged,
        NoRow, RowOf, server, history
  <2> QED
    BY <2>1, <2>2, <2>3
<1>3. ASSUME NEW p \in Products, ElsewhereWrite(p) \/ ElsewhereDelete(p)
      PROVE  CallInv' /\ StoreInv' /\ RowInv'
  <2>1. /\ \A q \in Products : made[q] # 0 => made'[q] # 0
        /\ \A q \in Products : catalogue[q] # 0 => catalogue'[q] # 0
        /\ \A q \in Products : catalogue'[q] # 0 => made'[q] # 0
        /\ \A q \in softDeleted' : catalogue'[q] # 0
        /\ UNCHANGED <<till, cycle, late, mine>>
    <3>1. CASE ElsewhereWrite(p)
      <4>1. /\ made' = [made EXCEPT ![p] = made[p] + 1]
            /\ catalogue' = [catalogue EXCEPT ![p] = made[p] + 1]
            /\ UNCHANGED <<till, cycle, late, softDeleted, mine>>
        BY <3>1 DEF ElsewhereWrite, NewVersion
      <4>2. made[p] \in Nat /\ made[p] + 1 # 0 /\ softDeleted \subseteq Products
        BY <1>a DEF TypeOK
      <4> QED
        BY <1>a, <1>c, <4>1, <4>2
    <3>2. CASE ElsewhereDelete(p)
      BY <3>2, <1>a, <1>c DEF ElsewhereDelete, Live, history
    <3> QED
      BY <1>3, <3>1, <3>2
  <2>2. CallInv'
    BY <1>a, <1>b, <2>1, CallInvKept DEF Cycle, Call
  <2>3. StoreInv'
    BY <1>b, <1>c, <2>1 DEF StoreInv, Exists, till
  <2>4. RowInv'
    BY <1>c, <2>1
    DEF RowInv, FlaggedRowIsMine, TombstoneHidden, KnownToServer, Exists, Flagged, till
  <2> QED
    BY <2>2, <2>3, <2>4
<1>4. ASSUME NEW t \in Tabs, BeginCycle(t) \/ NextPhase(t)
      PROVE  CallInv' /\ StoreInv' /\ RowInv'
  <2>1. PICK phase \in {"create", "edit", "delete", "pull"}, todo \in SUBSET Call :
          cycle' = [cycle EXCEPT ![t] = CycleIn(phase, todo)] /\ \A c \in todo : Genuine(c)
    <3>1. /\ ListUnpushedProducts \in SUBSET Call
          /\ ListEditedProducts \in SUBSET Call
          /\ ListPendingProductDeletes \in SUBSET Call
      BY <1>a, ListedIsCalls
      DEF ListUnpushedProducts, ListEditedProducts, ListPendingProductDeletes
    <3>2. /\ \A c \in ListUnpushedProducts : Genuine(c)
          /\ \A c \in ListEditedProducts : Genuine(c)
          /\ \A c \in ListPendingProductDeletes : Genuine(c)
      BY ListedIsGenuine
    <3> QED
      <4>1. CASE cycle' = [cycle EXCEPT ![t] = CycleIn("create", ListUnpushedProducts)]
        BY <3>1, <3>2, <4>1
      <4>2. CASE cycle' = [cycle EXCEPT ![t] = CycleIn("edit", ListEditedProducts)]
        BY <3>1, <3>2, <4>2
      <4>3. CASE cycle' = [cycle EXCEPT ![t] = CycleIn("delete", ListPendingProductDeletes)]
        BY <3>1, <3>2, <4>3
      <4>4. CASE cycle' = [cycle EXCEPT ![t] = CycleIn("pull", {})]
        <5> DEFINE none == {}
        <5>1. none \in SUBSET Call /\ \A c \in none : Genuine(c)
          OBVIOUS
        <5>2. cycle' = [cycle EXCEPT ![t] = CycleIn("pull", none)]
          BY <4>4
        <5> HIDE DEF none
        <5> QED
          BY <5>1, <5>2
      <4> QED
        BY <1>4, <4>1, <4>2, <4>3, <4>4 DEF BeginCycle, NextPhase
  <2> QED
    BY <1>4, <1>a, <1>b, <2>1, QuietStep DEF BeginCycle, NextPhase, CycleIn
<1>5. ASSUME NEW t \in Tabs, SendNext(t)
      PROVE  CallInv' /\ StoreInv' /\ RowInv'
  <2>1. PICK c \in cycle[t].todo :
          cycle' = [cycle EXCEPT ![t].todo = @ \ {c}, ![t].sent = {c}]
    BY <1>5 DEF SendNext
  <2>2. cycle[t].reply = "none"
    BY <1>5, <1>a DEF SendNext, TypeOK
  <2>3. \A u \in Tabs : /\ cycle'[u].todo \cup cycle'[u].sent \subseteq
                             cycle[u].todo \cup cycle[u].sent
                        /\ cycle'[u].reply = cycle[u].reply /\ cycle'[u].got = cycle[u].got
                        /\ u # t => cycle'[u].sent = cycle[u].sent
    BY <1>a, <2>1 DEF Cycle
  <2> QED
    BY <1>5, <1>a, <1>b, <2>2, <2>3, QuietStep DEF SendNext, till, server, history
<1>6. ASSUME NEW t \in Tabs, Refuse(t) \/ LoseCall(t)
      PROVE  CallInv' /\ StoreInv' /\ RowInv'
  <2>1. \A u \in Tabs : /\ cycle'[u].todo = cycle[u].todo /\ cycle'[u].got = cycle[u].got
                        /\ cycle'[u].sent \subseteq cycle[u].sent
                        /\ cycle'[u].reply = "ok" => cycle[u].reply = "ok"
    <3>1. CASE Refuse(t)
      BY <3>1, <1>a DEF Refuse, Cycle
    <3>2. CASE LoseCall(t)
      BY <3>2, <1>a DEF LoseCall, Cycle
    <3> QED
      BY <1>6, <3>1, <3>2
  <2>2. late' \subseteq late \cup cycle[t].sent
    BY <1>6 DEF Refuse, LoseCall, Abandon
  <2> QED
    BY <1>6, <1>a, <1>b, <2>1, <2>2, QuietStep DEF Refuse, LoseCall
<1>7. ASSUME NEW t \in Tabs, LosePull(t) \/ CloseTab(t)
      PROVE  CallInv' /\ StoreInv' /\ RowInv'
  <2>1. late' \subseteq late \cup cycle[t].sent /\ cycle' = [cycle EXCEPT ![t] = Idle]
    BY <1>7 DEF LosePull, CloseTab, Abandon
  <2> QED
    BY <1>7, <1>a, <1>b, <2>1, QuietStep DEF LosePull, CloseTab, Idle, CycleIn
<1>8. ASSUME NEW t \in Tabs, ListForBusiness(t)
      PROVE  CallInv' /\ StoreInv' /\ RowInv'
  <2>1. \A u \in Tabs : /\ cycle'[u].todo = cycle[u].todo /\ cycle'[u].sent = cycle[u].sent
                        /\ cycle'[u].reply = cycle[u].reply
                        /\ \A p \in Products : cycle'[u].got[p] # 0 => catalogue[p] # 0
    <3> DEFINE list == [p \in Products |-> IF Live(p) THEN catalogue[p] ELSE 0]
    <3>1. cycle' = [cycle EXCEPT ![t].phase = "seed", ![t].got = list]
      BY <1>8 DEF ListForBusiness
    <3>2. \A p \in Products : list[p] # 0 => catalogue[p] # 0
      OBVIOUS
    <3> HIDE DEF list
    <3>3. \A u \in Tabs : /\ cycle'[u].todo = cycle[u].todo /\ cycle'[u].sent = cycle[u].sent
                          /\ cycle'[u].reply = cycle[u].reply
                          /\ cycle'[u].got = IF u = t THEN list ELSE cycle[u].got
      BY <1>a, <3>1 DEF Cycle
    <3> QED
      BY <1>b, <3>2, <3>3
  <2> QED
    BY <1>8, <1>a, <1>b, <2>1, QuietStep DEF ListForBusiness
<1>9. ASSUME NEW t \in Tabs, ReceiveReply(t)
      PROVE  CallInv' /\ StoreInv' /\ RowInv'
  <2>1. \A u \in Tabs : /\ cycle'[u].todo = cycle[u].todo /\ cycle'[u].got = cycle[u].got
                        /\ cycle'[u].sent \subseteq cycle[u].sent
                        /\ cycle'[u].reply = "ok" => cycle[u].reply = "ok"
    BY <1>9, <1>a DEF ReceiveReply, Cycle
  <2>2. CallInv'
    BY <1>9, <1>a, <1>b, <2>1, CallInvKept DEF ReceiveReply, server, history
  <2>3. PICK c \in cycle[t].sent : (cycle[t].reply = "ok" /\ Acknowledge(c)) \/ UNCHANGED till
    BY <1>9 DEF ReceiveReply
  <2>4. c \in Call /\ c.id \in Products
    BY <1>a DEF Cycle, Call
  <2>5. /\ \A p \in Products : products'[p].ver = products[p].ver
        /\ \A p \in Products : Flagged(p)' => Flagged(p)
        /\ deletedProducts' \subseteq deletedProducts
        /\ \A p \in Products :
             Exists(p) /\ products[p].localOnly /\ ~products'[p].localOnly => catalogue[p] # 0
    <3>1. CASE UNCHANGED till
      BY <3>1 DEF till, Flagged
    <3>2. CASE c.op = "POST" /\ cycle[t].reply = "ok" /\ Acknowledge(c)
      <4>1. /\ catalogue[c.id] # 0 /\ UNCHANGED deletedProducts
            /\ products' = IF Exists(c.id) THEN [products EXCEPT ![c.id].localOnly = FALSE]
                           ELSE products
        BY <1>b, <3>2 DEF Acknowledge, ClearFlag
      <4>2. \A p \in Products : /\ products'[p].ver = products[p].ver
                                /\ products'[p].pendingUpdate = products[p].pendingUpdate
                                /\ \/ products'[p].localOnly = products[p].localOnly
                                   \/ p = c.id /\ ~products'[p].localOnly
        BY <1>a, <2>4, <4>1 DEF Row
      <4> QED
        BY <4>1, <4>2 DEF Flagged
    <3>3. CASE c.op = "PUT" /\ Acknowledge(c)
      <4>1. /\ UNCHANGED deletedProducts
            /\ products' = IF Exists(c.id) THEN [products EXCEPT ![c.id].pendingUpdate = FALSE]
                           ELSE products
        BY <3>3 DEF Acknowledge, ClearFlag
      <4>2. \A p \in Products : /\ products'[p].ver = products[p].ver
                                /\ products'[p].localOnly = products[p].localOnly
                                /\ \/ products'[p].pendingUpdate = products[p].pendingUpdate
                                   \/ p = c.id /\ ~products'[p].pendingUpdate
        BY <1>a, <2>4, <4>1 DEF Row
      <4> QED
        BY <4>1, <4>2 DEF Flagged
    <3>4. CASE c.op = "DELETE" /\ Acknowledge(c)
      BY <1>a, <2>4, <3>4 DEF Acknowledge, Flagged
    <3> QED
      BY <2>3, <3>1, <3>2, <3>3, <3>4 DEF Acknowledge
  <2>6. UNCHANGED <<server, history>>
    BY <1>9 DEF ReceiveReply
  <2>7. StoreInv'
    BY <1>b, <1>c, <2>1, <2>5, <2>6 DEF StoreInv, Exists, server, history
  <2>8. RowInv'
    <3>1. FlaggedRowIsMine'
      BY <1>c, <2>5, <2>6 DEF FlaggedRowIsMine, history
    <3>3. TombstoneHidden'
      BY <1>a, <1>c, <2>5 DEF TombstoneHidden, Exists
    <3>2. KnownToServer'
      BY <1>c, <2>5, <2>6 DEF KnownToServer, Exists, server
    <3> QED
      BY <3>1, <3>2, <3>3 DEF RowInv
  <2> QED
    BY <2>2, <2>7, <2>8
<1>10. ASSUME NEW t \in Tabs, SeedProducts(t)
       PROVE  CallInv' /\ StoreInv' /\ RowInv'
  <2>1. cycle' = [cycle EXCEPT ![t] = Idle] /\ UNCHANGED <<deletedProducts, late, server, history>>
    BY <1>10 DEF SeedProducts
  <2>2. CallInv'
    BY <1>a, <1>b, <2>1, CallInvKept DEF server, history, Idle, CycleIn
  <2>3. /\ \A p \in Products : Flagged(p) => products'[p] = products[p]
        /\ \A p \in Products : ~Flagged(p) =>
             /\ ~products'[p].localOnly /\ ~products'[p].pendingUpdate
             /\ products'[p].ver # 0 => p \notin deletedProducts /\ catalogue[p] # 0
    BY <1>10, <1>a, <1>b DEF SeedProducts, NoRow, RowOf
  <2>4. StoreInv'
    BY <1>a, <1>b, <1>c, <2>1, <2>3 DEF StoreInv, Exists, Idle, CycleIn, server, history
  <2>5. RowInv'
    <3>1. FlaggedRowIsMine'
      BY <1>c, <2>1, <2>3 DEF FlaggedRowIsMine, Flagged, history
    <3>2. TombstoneHidden'
      BY <1>a, <1>c, <2>1, <2>3 DEF TombstoneHidden, Exists
    <3>3. KnownToServer'
      BY <1>c, <2>1, <2>3 DEF KnownToServer, Exists, server
    <3> QED
      BY <3>1, <3>2, <3>3 DEF RowInv
  <2> QED
    BY <2>2, <2>4, <2>5
<1>11. ASSUME NEW c \in Call, Genuine(c), Perform(c), UNCHANGED till,
              late' \subseteq late,
              \A u \in Tabs : /\ cycle'[u].todo = cycle[u].todo /\ cycle'[u].got = cycle[u].got
                              /\ cycle'[u].sent = cycle[u].sent
                              /\ cycle'[u].reply = "ok" =>
                                   cycle[u].reply = "ok" \/ \A d \in cycle[u].sent : d = c
       PROVE  CallInv' /\ StoreInv' /\ RowInv'
  <2>1. /\ \A p \in Products : catalogue[p] # 0 => catalogue'[p] # 0
        /\ \A p \in Products : catalogue'[p] # 0 => made[p] # 0
        /\ c.op = "POST" => catalogue'[c.id] # 0
        /\ \A p \in softDeleted' : catalogue'[p] # 0
        /\ UNCHANGED <<made, mine>>
    BY <1>11, PerformEffect
  <2>2. CallInv'
    BY <1>11, <1>a, <1>b, <2>1, CallInvKept DEF Cycle, Call
  <2>3. StoreInv'
    BY <1>11, <1>b, <1>c, <2>1 DEF StoreInv, Exists, till
  <2>4. RowInv'
    BY <1>11, <1>c, <2>1
    DEF RowInv, FlaggedRowIsMine, TombstoneHidden, KnownToServer, Exists, Flagged, till
  <2> QED
    BY <2>2, <2>3, <2>4
<1>12. ASSUME NEW t \in Tabs, Handle(t)
       PROVE  CallInv' /\ StoreInv' /\ RowInv'
  <2>1. PICK c \in cycle[t].sent : /\ Perform(c)
                                   /\ cycle' = [cycle EXCEPT ![t].reply =
                                        IF c.op = "PUT" /\ ~Live(c.id) THEN "refused" ELSE "ok"]
    BY <1>12 DEF Handle
  <2>2. c \in Call /\ Genuine(c) /\ \A d \in cycle[t].sent : d = c
    BY <1>a, <1>b DEF Cycle, TypeOK
  <2>3. \A u \in Tabs : /\ cycle'[u].todo = cycle[u].todo /\ cycle'[u].got = cycle[u].got
                        /\ cycle'[u].sent = cycle[u].sent
                        /\ u # t => cycle'[u].reply = cycle[u].reply
    BY <1>a, <2>1 DEF Cycle
  <2> QED
    BY <1>11, <1>12, <2>1, <2>2, <2>3 DEF Handle
<1>13. ASSUME NEW c \in Call, HandleLate(c)
       PROVE  CallInv' /\ StoreInv' /\ RowInv'
  BY <1>11, <1>13, <1>b DEF HandleLate
<1>14. CASE UNCHANGED vars
  BY <1>14, <1>a, <1>b, QuietStep DEF vars
<1> QED
  BY <1>1, <1>2, <1>3, <1>4, <1>5, <1>6, <1>7, <1>8, <1>9, <1>10, <1>12, <1>13, <1>14
  DEF Next, Operate, CycleStep, Fault

THEOREM LocalWorkInvariant == Spec => []IInv
BY InitIInv, StepIInv, PTL DEF Spec

(* No pull, however stale, replaces a row whose create or edit the server  *)
(* has not acknowledged: it shows what was last written in this browser.   *)
THEOREM LocalEditsSurvivePulls == Spec => []FlaggedRowIsMine
<1>1. IInv => FlaggedRowIsMine
  BY DEF IInv, RowInv
<1> QED
  BY <1>1, LocalWorkInvariant, PTL

\* A product in the delete outbox is never shown, whatever answers were in the air.
THEOREM OutboxHidesProducts == Spec => []TombstoneHidden
<1>1. IInv => TombstoneHidden
  BY DEF IInv, RowInv
<1> QED
  BY <1>1, LocalWorkInvariant, PTL

\* Updates and deletes are queued only for products the server has stored.
THEOREM CreateLandsFirst == Spec => []KnownToServer
<1>1. IInv => KnownToServer
  BY DEF IInv, RowInv
<1> QED
  BY <1>1, LocalWorkInvariant, PTL

-------------------------------------------------------------------------------
(* Deletion at the server *)

LEMMA StepDeleteIsFinal ==
  ASSUME IInv, [Next]_vars
  PROVE  \A p \in softDeleted : p \in softDeleted' /\ catalogue'[p] = catalogue[p]
<1>a. /\ cycle \in [Tabs -> Cycle] /\ late \subseteq Call
      /\ \A t \in Tabs : \A c \in cycle[t].sent : Genuine(c)
      /\ \A c \in late : Genuine(c)
  BY DEF IInv, TypeOK, CallInv
<1>b. /\ catalogue \in [Products -> 0 .. MaxVersion]
      /\ \A p \in softDeleted : p \in Products /\ catalogue[p] # 0 /\ made[p] # 0
  BY DEF IInv, TypeOK, StoreInv
<1>1. ASSUME NEW c \in Call, Genuine(c), Perform(c)
      PROVE  \A p \in softDeleted : p \in softDeleted' /\ catalogue'[p] = catalogue[p]
  BY <1>1, PerformEffect
<1>2. ASSUME NEW p \in Products, Operate(p)
      PROVE  \A q \in softDeleted : q \in softDeleted' /\ catalogue'[q] = catalogue[q]
  <2>1. CASE AddProduct(p) \/ UpdateProduct(p) \/ DeleteProduct(p)
    BY <2>1 DEF AddProduct, UpdateProduct, DeleteProduct, WriteHere, server
  <2>2. CASE ElsewhereWrite(p)
    BY <1>b, <2>2 DEF ElsewhereWrite, Live
  <2>3. CASE ElsewhereDelete(p)
    BY <2>3 DEF ElsewhereDelete
  <2> QED
    BY <1>2, <2>1, <2>2, <2>3 DEF Operate
<1>3. ASSUME NEW t \in Tabs, Handle(t)
      PROVE  \A p \in softDeleted : p \in softDeleted' /\ catalogue'[p] = catalogue[p]
  <2>1. PICK c \in cycle[t].sent : Perform(c)
    BY <1>3 DEF Handle
  <2>2. c \in Call /\ Genuine(c)
    BY <1>a DEF Cycle
  <2> QED
    BY <1>1, <2>1, <2>2
<1>4. ASSUME NEW t \in Tabs,
             \/ BeginCycle(t) \/ SendNext(t) \/ ReceiveReply(t) \/ NextPhase(t)
             \/ ListForBusiness(t) \/ SeedProducts(t) \/ Refuse(t) \/ Fault(t)
      PROVE  \A p \in softDeleted : p \in softDeleted' /\ catalogue'[p] = catalogue[p]
  BY <1>4 DEF BeginCycle, SendNext, ReceiveReply, NextPhase, ListForBusiness, SeedProducts,
              Fault, LoseCall, LosePull, CloseTab, Refuse, server
<1>5. ASSUME NEW c \in Call, HandleLate(c)
      PROVE  \A p \in softDeleted : p \in softDeleted' /\ catalogue'[p] = catalogue[p]
  BY <1>1, <1>5, <1>a DEF HandleLate
<1>6. CASE UNCHANGED vars
  BY <1>6 DEF vars, server
<1> QED
  BY <1>2, <1>3, <1>4, <1>5, <1>6 DEF Next, CycleStep

(* A product deleted at the server is never stored again: not by a create  *)
(* that is sent again, not by an update that arrives late.                 *)
THEOREM DeletionIsFinal == Spec => DeleteIsFinal
<1>1. IInv /\ [Next]_vars =>
        [\A p \in softDeleted : p \in softDeleted' /\ catalogue'[p] = catalogue[p]]_vars
  BY StepDeleteIsFinal
<1> QED
  BY <1>1, LocalWorkInvariant, PTL DEF Spec, DeleteIsFinal
===============================================================================
