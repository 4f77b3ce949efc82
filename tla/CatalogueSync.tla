----------------------------- MODULE CatalogueSync -----------------------------
(***************************************************************************)
(* The catalogue half of a sync cycle: products created, edited and        *)
(* deleted in the browser are pushed to the server one request at a time,  *)
(* then the server's list replaces the local one.                          *)
(*                                                                         *)
(* The operator keeps working while the cycle runs, other devices change   *)
(* the server's catalogue, requests and answers get lost, and a request    *)
(* nobody waits for any more may still be carried out, late.  A product's  *)
(* content is a version number: every edit, wherever it is made, makes a   *)
(* new one.  Stock is not part of the content.                             *)
(***************************************************************************)
EXTENDS Naturals, FiniteSets

CONSTANTS
  Products,    \* product ids
  Tabs,        \* browser tabs (one SyncManager each) over one IndexedDB
  MaxVersion,  \* bound: versions ever made of one product
  MaxLate      \* bound: requests that nobody waits for but may still be carried out

ASSUME CatalogueSyncAssumption ==
  /\ IsFiniteSet(Products)
  /\ MaxVersion \in Nat \ {0}
  /\ MaxLate \in Nat

VARIABLES
  products,         \* IndexedDB: the row of each product
  deletedProducts,  \* IndexedDB: the delete outbox
  cycle,            \* each tab's sync cycle
  late,             \* requests still on their way that nobody waits for
  catalogue,        \* server: stored version of each product, 0 if never created
  softDeleted,      \* server: products whose row is marked deleted
  made,             \* versions made so far of each product
  mine,             \* the version last written in this browser, 0 if none
  unsent            \* products whose version `mine` the server never stored

till    == <<products, deletedProducts>>
server  == <<catalogue, softDeleted>>
history == <<made, mine, unsent>>
vars    == <<till, cycle, late, server, history>>

Versions == 1 .. MaxVersion

\* ver = 0: there is no such row.
Row == [ver : 0 .. MaxVersion, localOnly : BOOLEAN, pendingUpdate : BOOLEAN]

RowOf(ver) == [ver |-> ver, localOnly |-> FALSE, pendingUpdate |-> FALSE]
NoRow == RowOf(0)

Exists(p)  == products[p].ver # 0
Flagged(p) == products[p].localOnly \/ products[p].pendingUpdate

\* A request of a push phase; ver is the content listed before the first await.
Call == [op : {"POST", "PUT", "DELETE"}, id : Products, ver : 0 .. MaxVersion]

(* todo: calls listed but not yet made; sent: the call being awaited, if   *)
(* any, with the server's reply; got: the list the server answered.        *)
Cycle == [phase : {"idle", "create", "edit", "delete", "pull", "seed"},
          todo : SUBSET Call, sent : SUBSET Call, reply : {"none", "ok", "refused"},
          got : [Products -> 0 .. MaxVersion]]

CycleIn(phase, todo) ==
  [phase |-> phase, todo |-> todo, sent |-> {}, reply |-> "none",
   got |-> [p \in Products |-> 0]]

Idle == CycleIn("idle", {})

Init ==
  /\ products = [p \in Products |-> NoRow]
  /\ deletedProducts = {}
  /\ cycle = [t \in Tabs |-> Idle]
  /\ late = {}
  /\ catalogue = [p \in Products |-> 0]
  /\ softDeleted = {}
  /\ made = [p \in Products |-> 0]
  /\ mine = [p \in Products |-> 0]
  /\ unsent = {}

-------------------------------------------------------------------------------
(* The operator *)

NewVersion(p) ==
  /\ made[p] < MaxVersion
  /\ made' = [made EXCEPT ![p] = @ + 1]

WriteHere(p, localOnly, pendingUpdate) ==
  /\ NewVersion(p)
  /\ products' = [products EXCEPT ![p] =
       [ver |-> made[p] + 1, localOnly |-> localOnly, pendingUpdate |-> pendingUpdate]]
  /\ mine' = [mine EXCEPT ![p] = made[p] + 1]
  /\ unsent' = unsent \cup {p}
  /\ UNCHANGED <<deletedProducts, cycle, late, server>>

AddProduct(p) ==
  /\ made[p] = 0
  /\ WriteHere(p, TRUE, FALSE)

\* A row waiting for its create keeps that flag only: the create sends the whole row.
UpdateProduct(p) ==
  /\ Exists(p)
  /\ WriteHere(p, products[p].localOnly, ~products[p].localOnly)

\* The row goes at once; a tombstone is left unless the row still waits for its create.
DeleteProduct(p) ==
  /\ Exists(p)
  /\ products' = [products EXCEPT ![p] = NoRow]
  /\ deletedProducts' = IF products[p].localOnly THEN deletedProducts
                        ELSE deletedProducts \cup {p}
  /\ UNCHANGED <<cycle, late, server, history>>

-------------------------------------------------------------------------------
(* The sync cycle of a tab *)

Listed(op, ids) == {[op |-> op, id |-> p, ver |-> products[p].ver] : p \in ids}

ListUnpushedProducts == Listed("POST", {p \in Products : products[p].localOnly})

ListEditedProducts ==
  Listed("PUT", {p \in Products : products[p].pendingUpdate /\ ~products[p].localOnly})

ListPendingProductDeletes == Listed("DELETE", deletedProducts)

BeginCycle(t) ==
  /\ cycle[t].phase = "idle"
  /\ cycle' = [cycle EXCEPT ![t] = CycleIn("create", ListUnpushedProducts)]
  /\ UNCHANGED <<till, late, server, history>>

\* The loop makes its next call and awaits it.
SendNext(t) ==
  /\ cycle[t].sent = {}
  /\ \E c \in cycle[t].todo :
       cycle' = [cycle EXCEPT ![t].todo = @ \ {c}, ![t].sent = {c}]
  /\ UNCHANGED <<till, late, server, history>>

\* A push phase is over when its list is: the next one lists its own work.
NextPhase(t) ==
  /\ cycle[t].todo = {} /\ cycle[t].sent = {}
  /\ \/ /\ cycle[t].phase = "create"
        /\ cycle' = [cycle EXCEPT ![t] = CycleIn("edit", ListEditedProducts)]
     \/ /\ cycle[t].phase = "edit"
        /\ cycle' = [cycle EXCEPT ![t] = CycleIn("delete", ListPendingProductDeletes)]
     \/ /\ cycle[t].phase = "delete"
        /\ cycle' = [cycle EXCEPT ![t] = CycleIn("pull", {})]
  /\ UNCHANGED <<till, late, server, history>>

ClearFlag(p, flag) ==
  products' = IF Exists(p) THEN [products EXCEPT ![p][flag] = FALSE] ELSE products

\* The call went through: its flag or tombstone has done its work.
Acknowledge(c) ==
  \/ c.op = "POST" /\ ClearFlag(c.id, "localOnly") /\ UNCHANGED deletedProducts
  \/ c.op = "PUT" /\ ClearFlag(c.id, "pendingUpdate") /\ UNCHANGED deletedProducts
  \/ c.op = "DELETE" /\ deletedProducts' = deletedProducts \ {c.id} /\ UNCHANGED products

\* Broken on purpose: a refused create counts as pushed.
ReceiveReply_AnyAnswer(t) ==
  /\ cycle[t].reply # "none"
  /\ \E c \in cycle[t].sent : Acknowledge(c)
  /\ cycle' = [cycle EXCEPT ![t].sent = {}, ![t].reply = "none"]
  /\ UNCHANGED <<late, server, history>>

(* A success clears the flag or the tombstone, whatever happened to the    *)
(* row while the call was awaited.  A refusal leaves both for next time.   *)
ReceiveReply(t) ==
  /\ cycle[t].reply # "none"
  /\ \E c \in cycle[t].sent :
       \/ cycle[t].reply = "ok" /\ Acknowledge(c)
       \/ cycle[t].reply = "refused" /\ UNCHANGED till
  /\ cycle' = [cycle EXCEPT ![t].sent = {}, ![t].reply = "none"]
  /\ UNCHANGED <<late, server, history>>

\* A call the server has not looked at may still arrive once nobody waits for it.
Abandon(t) ==
  late' = IF cycle[t].reply = "none" /\ Cardinality(late) < MaxLate
          THEN late \cup cycle[t].sent ELSE late

\* Broken on purpose: the answer of the lost call is taken for the next one's.
LoseCall_KeepReply(t) ==
  /\ cycle[t].sent # {}
  /\ Abandon(t)
  /\ cycle' = [cycle EXCEPT ![t].sent = {}]
  /\ UNCHANGED <<till, server, history>>

\* The call, or its answer, is lost: the loop goes on to the next product.
LoseCall(t) ==
  /\ cycle[t].sent # {}
  /\ Abandon(t)
  /\ cycle' = [cycle EXCEPT ![t].sent = {}, ![t].reply = "none"]
  /\ UNCHANGED <<till, server, history>>

\* GET /products fails; the cycle is over.
LosePull(t) ==
  /\ cycle[t].phase \in {"pull", "seed"}
  /\ cycle' = [cycle EXCEPT ![t] = Idle]
  /\ UNCHANGED <<till, late, server, history>>

\* Broken on purpose: an edited row keeps its flag but takes the server's content.
SeedProducts_DropEdits(t) ==
  /\ cycle[t].phase = "seed"
  /\ products' = [p \in Products |->
       IF products[p].localOnly THEN products[p]
       ELSE IF p \in deletedProducts THEN NoRow
       ELSE [products[p] EXCEPT !.ver = cycle[t].got[p]]]
  /\ cycle' = [cycle EXCEPT ![t] = Idle]
  /\ UNCHANGED <<deletedProducts, late, server, history>>

\* Broken on purpose: the delete outbox does not filter the list.
SeedProducts_NoOutbox(t) ==
  /\ cycle[t].phase = "seed"
  /\ products' = [p \in Products |->
       IF Flagged(p) THEN products[p] ELSE RowOf(cycle[t].got[p])]
  /\ cycle' = [cycle EXCEPT ![t] = Idle]
  /\ UNCHANGED <<deletedProducts, late, server, history>>

\* Flagged rows win, tombstones filter the list, everything else is the server's.
SeedProducts(t) ==
  /\ cycle[t].phase = "seed"
  /\ products' = [p \in Products |->
       IF Flagged(p) THEN products[p]
       ELSE IF p \in deletedProducts THEN NoRow ELSE RowOf(cycle[t].got[p])]
  /\ cycle' = [cycle EXCEPT ![t] = Idle]
  /\ UNCHANGED <<deletedProducts, late, server, history>>

\* The tab goes away with its cycle.
CloseTab(t) ==
  /\ cycle[t].phase # "idle"
  /\ Abandon(t)
  /\ cycle' = [cycle EXCEPT ![t] = Idle]
  /\ UNCHANGED <<till, server, history>>

-------------------------------------------------------------------------------
(* The server *)

Live(p) == catalogue[p] # 0 /\ p \notin softDeleted

\* The version c brings is stored.
Store(c) ==
  /\ catalogue' = [catalogue EXCEPT ![c.id] = c.ver]
  /\ unsent' = IF c.ver = mine[c.id] THEN unsent \ {c.id} ELSE unsent

\* Broken on purpose: a create of a known id replaces the stored row.
Create_Upsert(c) ==
  /\ Store(c)
  /\ softDeleted' = softDeleted \ {c.id}

\* A create of an id already stored, deleted or not, changes nothing and succeeds.
Create(c) ==
  /\ IF catalogue[c.id] = 0 THEN Store(c) ELSE UNCHANGED <<catalogue, unsent>>
  /\ UNCHANGED softDeleted

Update(c) ==
  /\ IF Live(c.id) THEN Store(c) ELSE UNCHANGED <<catalogue, unsent>>
  /\ UNCHANGED softDeleted

Delete(c) ==
  /\ softDeleted' = IF Live(c.id) THEN softDeleted \cup {c.id} ELSE softDeleted
  /\ UNCHANGED <<catalogue, unsent>>

Perform(c) ==
  /\ CASE c.op = "POST" -> Create(c) [] c.op = "PUT" -> Update(c) [] c.op = "DELETE" -> Delete(c)
  /\ UNCHANGED <<made, mine>>

\* Broken on purpose: deleting a product that is already gone is a failure too.
Handle_DeleteNeedsRow(t) ==
  /\ cycle[t].reply = "none"
  /\ \E c \in cycle[t].sent :
       /\ Perform(c)
       /\ cycle' = [cycle EXCEPT ![t].reply =
            IF c.op # "POST" /\ ~Live(c.id) THEN "refused" ELSE "ok"]
  /\ UNCHANGED <<till, late>>

(* The server carries the call out.  An update of a product that is gone   *)
(* is a 404; so is a delete, but the client takes that one for a success.  *)
Handle(t) ==
  /\ cycle[t].reply = "none"
  /\ \E c \in cycle[t].sent :
       /\ Perform(c)
       /\ cycle' = [cycle EXCEPT ![t].reply =
            IF c.op = "PUT" /\ ~Live(c.id) THEN "refused" ELSE "ok"]
  /\ UNCHANGED <<till, late>>

\* 409 for an SKU or barcode of another product, or 422: nothing is stored.
Refuse(t) ==
  /\ cycle[t].reply = "none"
  /\ \E c \in cycle[t].sent : c.op # "DELETE"
  /\ cycle' = [cycle EXCEPT ![t].reply = "refused"]
  /\ UNCHANGED <<till, late, server, history>>

HandleLate(c) ==
  /\ c \in late
  /\ Perform(c)
  /\ late' = late \ {c}
  /\ UNCHANGED <<till, cycle>>

\* GET /products: the live rows as they are now; the answer is still to arrive.
ListForBusiness(t) ==
  /\ cycle[t].phase = "pull"
  /\ cycle' = [cycle EXCEPT ![t].phase = "seed",
       ![t].got = [p \in Products |-> IF Live(p) THEN catalogue[p] ELSE 0]]
  /\ UNCHANGED <<till, late, server, history>>

\* Another device creates a product or edits one.
ElsewhereWrite(p) ==
  /\ made[p] = 0 \/ Live(p)
  /\ NewVersion(p)
  /\ catalogue' = [catalogue EXCEPT ![p] = made[p] + 1]
  /\ UNCHANGED <<till, cycle, late, softDeleted, mine, unsent>>

ElsewhereDelete(p) ==
  /\ Live(p)
  /\ softDeleted' = softDeleted \cup {p}
  /\ UNCHANGED <<till, cycle, late, catalogue, history>>

-------------------------------------------------------------------------------
\* What people do, here and elsewhere.
Operate(p) ==
  \/ AddProduct(p) \/ UpdateProduct(p) \/ DeleteProduct(p)
  \/ ElsewhereWrite(p) \/ ElsewhereDelete(p)

\* What goes wrong.
Fault(t) == LoseCall(t) \/ LosePull(t) \/ CloseTab(t)

\* What a cycle left alone does; a refusal is an answer like any other.
CycleStep(t) ==
  \/ BeginCycle(t) \/ SendNext(t) \/ Handle(t) \/ Refuse(t) \/ ReceiveReply(t)
  \/ NextPhase(t) \/ ListForBusiness(t) \/ SeedProducts(t)

Next ==
  \/ \E p \in Products : Operate(p)
  \/ \E t \in Tabs : CycleStep(t) \/ Fault(t)
  \/ \E c \in Call : HandleLate(c)

Spec == Init /\ [][Next]_vars

\* A tab that is left alone runs cycle after cycle, and the server answers it.
Fairness == \A t \in Tabs : WF_vars(CycleStep(t))

FairSpec == Spec /\ Fairness

-------------------------------------------------------------------------------
(* Properties *)

\* The types of the variables; a tab awaits one call at a time.
TypeOK ==
  /\ products \in [Products -> Row]
  /\ deletedProducts \subseteq Products
  /\ cycle \in [Tabs -> Cycle]
  /\ \A t \in Tabs :
       /\ \A c, d \in cycle[t].sent : c = d
       /\ cycle[t].sent = {} => cycle[t].reply = "none"
  /\ late \subseteq Call
  /\ catalogue \in [Products -> 0 .. MaxVersion]
  /\ softDeleted \subseteq Products
  /\ made \in [Products -> 0 .. MaxVersion]
  /\ mine \in [Products -> 0 .. MaxVersion]
  /\ unsent \subseteq Products

(* A row the server has not acknowledged shows what the operator last      *)
(* wrote here: no pull, however stale its answer, undoes an offline        *)
(* create or edit (seedProducts).                                          *)
FlaggedRowIsMine ==
  \A p \in Products : Flagged(p) => products[p].ver = mine[p] /\ mine[p] # 0

(* A product in the delete outbox stays off the till: no answer to a call  *)
(* or a pull that was in the air when it was deleted brings it back.       *)
TombstoneHidden ==
  \A p \in deletedProducts : ~Exists(p)

(* Updates and deletes are only ever queued for products the server has    *)
(* stored: "a create must land before the edit that refers to it".         *)
KnownToServer ==
  \A p \in Products :
    (Exists(p) /\ ~products[p].localOnly) \/ p \in deletedProducts => catalogue[p] # 0

(* A product deleted at the server stays deleted: neither a create sent    *)
(* again nor a late update brings it back or changes it.                   *)
DeleteIsFinal ==
  [][\A p \in softDeleted : p \in softDeleted' /\ catalogue'[p] = catalogue[p]]_vars

\* Row and server agree about p and nothing is left to push.
Settled(p) ==
  /\ ~Flagged(p) /\ p \notin deletedProducts
  /\ products[p].ver = IF Live(p) THEN catalogue[p] ELSE 0

\* The answer to a create or an edit of p is 404, 409 or 422.
Refused(p) ==
  \E t \in Tabs : \E c \in cycle[t].sent :
    c.id = p /\ c.op # "DELETE" /\ cycle[t].reply = "refused"

\* A step that neither people nor the network had a hand in.
Undisturbed ==
  (\E t \in Tabs : CycleStep(t)) \/ (\E c \in Call : HandleLate(c))

(* Once people and the network leave the tills alone, every product        *)
(* settles, whatever was pending, lost or late before, or the server says  *)
(* no to its create or edit again and again: no deletion, no lost answer   *)
(* and no stale list leaves till and server apart in silence.              *)
Converges ==
  <>[][Undisturbed]_vars => \A p \in Products : <>[]Settled(p) \/ []<>Refused(p)

(* "A row keeps its flag until the server accepts it": an edit that was    *)
(* never stored is still flagged, unless the product was deleted.          *)
EditKeptUntilStored ==
  \A p \in unsent : Exists(p) => Flagged(p)

(* "A product the server has never seen (_local_only) needs no tombstone": *)
(* a product of this browser that is gone from the till, deleted here or   *)
(* elsewhere, is not brought back by a later pull.                         *)
DeletedStaysGone ==
  [][\A p \in Products : mine[p] # 0 /\ ~Exists(p) => ~Exists(p)']_vars
===============================================================================
