---------------------------- MODULE PurchaseOrders ----------------------------
(***************************************************************************)
(* PurchaseOrdersService over the shared inventory: create, update,        *)
(* confirm, receive and cancel.                                            *)
(*                                                                         *)
(* Every operation reads the order and checks its status before it writes; *)
(* no write is conditional on that status.  create is SERIALIZABLE and     *)
(* takes effect in one step.  update and receive are READ COMMITTED        *)
(* transactions of several statements: what they write is invisible to     *)
(* others until the commit, and the rows they wrote stay locked until then.*)
(***************************************************************************)
EXTENDS Inventory

CONSTANTS
    Orders,         \* order ids
    Clerks,         \* requests of this module
    Kinds,          \* the operations the clerks ask for
    OpeningStatus,  \* what an order may be when the behaviour starts
    MaxOrdered,     \* bound: units of a product on one order
    MaxServed       \* bound: requests of this module served at the same time

ASSUME PurchaseOrdersAssumption ==
    /\ Clerks \subseteq Requests
    /\ Orders \subseteq Documents
    /\ Orders \cap Clerks = {} /\ None \notin Orders
    /\ OpeningStatus \subseteq {"none", "DRAFT", "PENDING"}
    /\ Kinds \subseteq {"create", "update", "confirm", "receive", "cancel"}
    /\ MaxOrdered \in Nat \ {0}
    /\ MaxServed \in Nat \ {0}

VARIABLES
    order,          \* PurchaseOrder rows
    item,           \* PurchaseOrderItem rows
    itemLock,       \* the open transaction that holds each item row
    clerk           \* local state of the requests

ordersVars == <<order, item, itemLock, clerk>>

\* An item is named by its product and by what inserted it: the creation of its
\* order, or the update request that replaced the items.
ItemId == (Orders \cup Clerks) \X Products

ProductOf(i) == i[2]

OrderStatus == {"none", "DRAFT", "PENDING", "PARTIAL_RECEIVED", "RECEIVED", "CANCELLED"}

OrderLines == [Products -> 0..MaxOrdered]

NoLines == [p \in Products |-> 0]

\* total stands for the subtotal, tax and total columns: the lines they were
\* computed from.
OrderRow == [status: OrderStatus, total: OrderLines]

\* An item row; its order is None while the item does not exist.
ItemRow == [order: Orders \cup {None}, qtyOrdered: Nat, qtyReceived: Nat]

NoItem == [order |-> None, qtyOrdered |-> 0, qtyReceived |-> 0]

\* current: the item being received; seen: its product row as the transaction
\* read it; add, rows: the stock increments and kardex rows not committed yet.
Clerk ==
    [pc: {"idle", "creating", "replacing", "deleting", "inserting", "confirming",
          "cancelling", "receiving", "checked", "writing", "counting", "closing",
          "done", "refused"},
     order: Orders \cup {None}, lines: OrderLines, todo: SUBSET ItemId,
     now: [ItemId -> 0..MaxOrdered], current: ItemId \cup {None}, seen: ProductRow,
     add: [Products -> Nat], rows: [Products -> Seq(Movement)], allReceived: BOOLEAN]

OrdersTypeOK ==
    /\ InventoryTypeOK
    /\ order \in [Orders -> OrderRow]
    /\ item \in [ItemId -> ItemRow]
    /\ itemLock \in [ItemId -> Clerks \cup {None}]
    /\ clerk \in [Clerks -> Clerk]

IdleClerk ==
    [pc |-> "idle", order |-> None, lines |-> NoLines, todo |-> {},
     now |-> [i \in ItemId |-> 0], current |-> None, seen |-> OpeningRow("absent"),
     add |-> NoLines, rows |-> [p \in Products |-> <<>>], allReceived |-> FALSE]

\* The item table with the given lines inserted by w for order o.
Insert(table, w, lines, o) ==
    [i \in ItemId |->
        IF i[1] = w /\ lines[i[2]] > 0
        THEN [order |-> o, qtyOrdered |-> lines[i[2]], qtyReceived |-> 0]
        ELSE table[i]]

\* Orders as create, or create and confirm, leave them.
OrdersInit ==
    /\ \E status \in [Orders -> OpeningStatus], lines \in [Orders -> OrderLines \ {NoLines}] :
          /\ \A o \in Orders, p \in Products :
                status[o] # "none" /\ lines[o][p] > 0 => Exists(p)
          /\ order = [o \in Orders |-> [status |-> status[o],
                total |-> IF status[o] = "none" THEN NoLines ELSE lines[o]]]
          /\ item = [i \in ItemId |->
                IF i[1] \in Orders /\ status[i[1]] # "none" /\ lines[i[1]][i[2]] > 0
                THEN [order |-> i[1], qtyOrdered |-> lines[i[1]][i[2]], qtyReceived |-> 0]
                ELSE NoItem]
    /\ itemLock = [i \in ItemId |-> None]
    /\ clerk = [c \in Clerks |-> IdleClerk]

Served == {c \in Clerks : clerk[c].pc \notin {"idle", "done", "refused"}}

Ready(c, kind) ==
    /\ clerk[c].pc = "idle" /\ kind \in Kinds
    /\ Cardinality(Served) < MaxServed

ItemsOf(o) == {i \in ItemId : item[i].order = o}

\* computeItems: each product exists, is active and tracked when it is read.
Purchasable(lines) ==
    /\ lines # NoLines
    /\ \A p \in Products : lines[p] > 0 => Active(p) /\ TracksStock(product[p])

\* The foreign key of an item.
StillExist(lines) == \A p \in Products : lines[p] > 0 => Exists(p)

ItemsReleased(c) == [i \in ItemId |-> IF itemLock[i] = c THEN None ELSE itemLock[i]]

End(c, pc) == clerk' = [clerk EXCEPT ![c] = [IdleClerk EXCEPT !.pc = pc]]

-----------------------------------------------------------------------------
(* create and update *)

\* The lines are computed from product rows read outside the transaction.
OpenCreate(c, o) ==
    /\ Ready(c, "create") /\ order[o].status = "none"
    /\ \A d \in Served : clerk[d].order # o
    /\ \E lines \in OrderLines :
          /\ Purchasable(lines)
          /\ clerk' = [clerk EXCEPT ![c].pc = "creating", ![c].order = o, ![c].lines = lines]
    /\ UNCHANGED <<inventoryVars, order, item, itemLock>>

\* The SERIALIZABLE transaction, order and items together.
CreateOrder(c) ==
    LET o == clerk[c].order IN
    /\ clerk[c].pc = "creating" /\ StillExist(clerk[c].lines)
    /\ order' = [order EXCEPT ![o] = [status |-> "DRAFT", total |-> clerk[c].lines]]
    /\ item' = Insert(item, o, clerk[c].lines, o)
    /\ End(c, "done")
    /\ UNCHANGED <<inventoryVars, itemLock>>

\* 'Solo se pueden editar ordenes en borrador'.
Editable(o) == order[o].status = "DRAFT"

\* The status is checked, and the lines computed, outside the transaction.
OpenUpdate(c, o) ==
    /\ Ready(c, "update") /\ Editable(o)
    /\ \E lines \in OrderLines :
          /\ Purchasable(lines)
          /\ clerk' = [clerk EXCEPT ![c].pc = "replacing", ![c].order = o, ![c].lines = lines]
    /\ UNCHANGED <<inventoryVars, order, item, itemLock>>

\* deleteMany takes its snapshot: the items committed at this moment.
SelectItems(c) ==
    /\ clerk[c].pc = "replacing"
    /\ clerk' = [clerk EXCEPT ![c].pc = "deleting", ![c].todo = ItemsOf(clerk[c].order)]
    /\ UNCHANGED <<inventoryVars, order, item, itemLock>>

\* deleteMany waits for the rows others hold and skips those gone meanwhile.
DeleteItems(c) ==
    LET victims == clerk[c].todo \cap ItemsOf(clerk[c].order) IN
    /\ clerk[c].pc = "deleting"
    /\ \A i \in victims : itemLock[i] = None
    /\ itemLock' = [i \in ItemId |-> IF i \in victims THEN c ELSE itemLock[i]]
    /\ clerk' = [clerk EXCEPT ![c].pc = "inserting"]
    /\ UNCHANGED <<inventoryVars, order, item>>

\* Mutant: the old items stay beside the new ones.
RemainingItemsAll(c) == item

\* The item table without the items the request deleted.
RemainingItems(c) == [i \in ItemId |-> IF itemLock[i] = c THEN NoItem ELSE item[i]]

\* The new items, the new totals and the commit.
CommitUpdate(c) ==
    LET o == clerk[c].order IN
    /\ clerk[c].pc = "inserting" /\ StillExist(clerk[c].lines)
    /\ item' = Insert(RemainingItems(c), c, clerk[c].lines, o)
    /\ itemLock' = ItemsReleased(c)
    /\ order' = [order EXCEPT ![o].total = clerk[c].lines]
    /\ End(c, "done")
    /\ UNCHANGED inventoryVars

-----------------------------------------------------------------------------
(* confirm and cancel: a read, a check, and an update by id *)

\* 'Solo se pueden confirmar ordenes en borrador', with at least one item.
Confirmable(o) == order[o].status = "DRAFT" /\ ItemsOf(o) # {}

OpenConfirm(c, o) ==
    /\ Ready(c, "confirm") /\ Confirmable(o)
    /\ clerk' = [clerk EXCEPT ![c].pc = "confirming", ![c].order = o]
    /\ UNCHANGED <<inventoryVars, order, item, itemLock>>

Confirm(c) ==
    /\ clerk[c].pc = "confirming"
    /\ order' = [order EXCEPT ![clerk[c].order].status = "PENDING"]
    /\ End(c, "done")
    /\ UNCHANGED <<inventoryVars, item, itemLock>>

\* 'Solo se pueden cancelar ordenes en borrador o pendientes'.
Cancellable(o) == order[o].status \in {"DRAFT", "PENDING"}

OpenCancel(c, o) ==
    /\ Ready(c, "cancel") /\ Cancellable(o)
    /\ clerk' = [clerk EXCEPT ![c].pc = "cancelling", ![c].order = o]
    /\ UNCHANGED <<inventoryVars, order, item, itemLock>>

Cancel(c) ==
    /\ clerk[c].pc = "cancelling"
    /\ order' = [order EXCEPT ![clerk[c].order].status = "CANCELLED"]
    /\ End(c, "done")
    /\ UNCHANGED <<inventoryVars, item, itemLock>>

-----------------------------------------------------------------------------
(* receive *)

Pending(i) == item[i].qtyOrdered - item[i].qtyReceived

\* qtyReceivedNow must not exceed what the item still waits for.
Fits(c, i) == clerk[c].now[i] <= Pending(i)

\* 'Solo se pueden recibir ordenes pendientes o parcialmente recibidas'.
Receivable(o) == order[o].status \in {"PENDING", "PARTIAL_RECEIVED"}

\* Status and pending quantities are checked on an order read outside the
\* transaction; each item appears once in the payload, with at least one unit.
OpenReceive(c, o) ==
    /\ Ready(c, "receive") /\ Receivable(o)
    /\ \E now \in [ItemsOf(o) -> 0..MaxOrdered] :
          LET chosen == {i \in ItemsOf(o) : now[i] > 0} IN
          /\ chosen # {}
          /\ \A i \in chosen : now[i] <= Pending(i)
          /\ clerk' = [clerk EXCEPT ![c].pc = "receiving", ![c].order = o, ![c].todo = chosen,
                ![c].now = [i \in ItemId |-> IF i \in chosen THEN now[i] ELSE 0]]
    /\ UNCHANGED <<inventoryVars, order, item, itemLock>>

\* In the transaction: the item is read again, and its pending quantity checked again.
CheckItem(c, i) ==
    /\ clerk[c].pc = "receiving" /\ i \in clerk[c].todo
    /\ item[i].order = clerk[c].order /\ Fits(c, i)
    /\ clerk' = [clerk EXCEPT ![c].pc = "checked", ![c].current = i, ![c].todo = @ \ {i}]
    /\ UNCHANGED <<inventoryVars, order, item, itemLock>>

\* The product is read; an untracked one moves no stock.
ReadProduct(c) ==
    LET p == ProductOf(clerk[c].current) IN
    /\ clerk[c].pc = "checked" /\ Exists(p)
    /\ clerk' = [clerk EXCEPT
          ![c].pc = IF TracksStock(product[p]) THEN "writing" ELSE "counting",
          ![c].seen = [product[p] EXCEPT !.stock = @ + clerk[c].add[p]]]
    /\ UNCHANGED <<inventoryVars, order, item, itemLock>>

\* Mutant: the increment no longer names the version that was read.
SameVersionAlways(c, p) == TRUE

\* updateMany where version; a row this transaction already wrote is its own.
SameVersion(c, p) == lock[p] = c \/ product[p].version = clerk[c].seen.version

\* The guarded increment and the movement, its columns computed from the read.
AddStock(c) ==
    LET i == clerk[c].current
        p == ProductOf(i)
        n == clerk[c].now[i]
        s == clerk[c].seen.stock
    IN
    /\ clerk[c].pc = "writing" /\ lock[p] \in {None, c} /\ SameVersion(c, p)
    /\ lock' = [lock EXCEPT ![p] = c]
    /\ clerk' = [clerk EXCEPT ![c].pc = "counting", ![c].add[p] = @ + n,
          ![c].rows[p] = Append(@, MovementRow("PURCHASE", s, s + n, clerk[c].order))]
    /\ UNCHANGED <<product, kardex, order, item, itemLock>>

\* The item's own increment takes its row lock; the row may be gone by then.
CountItem(c) ==
    LET i == clerk[c].current IN
    /\ clerk[c].pc = "counting"
    /\ item[i].order = clerk[c].order /\ itemLock[i] = None
    /\ itemLock' = [itemLock EXCEPT ![i] = c]
    /\ clerk' = [clerk EXCEPT ![c].pc = "receiving", ![c].current = None]
    /\ UNCHANGED <<inventoryVars, order, item>>

\* The request's own increments are visible to it, those of others once committed.
ReceivedSeenBy(c, i) == item[i].qtyReceived + IF itemLock[i] = c THEN clerk[c].now[i] ELSE 0

\* Mutant: one item fully received closes the order.
AnyReceived(c) ==
    \E i \in ItemsOf(clerk[c].order) : ReceivedSeenBy(c, i) >= item[i].qtyOrdered

AllReceived(c) ==
    \A i \in ItemsOf(clerk[c].order) : ReceivedSeenBy(c, i) >= item[i].qtyOrdered

\* Every item of the order is read again to decide the new status.
ReadItems(c) ==
    /\ clerk[c].pc = "receiving" /\ clerk[c].todo = {}
    /\ clerk' = [clerk EXCEPT ![c].pc = "closing", ![c].allReceived = AllReceived(c)]
    /\ UNCHANGED <<inventoryVars, order, item, itemLock>>

\* Mutant: the quantity received is stored instead of added.
ReceivedItemsStored(c) ==
    [i \in ItemId |-> IF itemLock[i] = c THEN [item[i] EXCEPT !.qtyReceived = clerk[c].now[i]]
                                         ELSE item[i]]

ReceivedItems(c) ==
    [i \in ItemId |-> IF itemLock[i] = c THEN [item[i] EXCEPT !.qtyReceived = @ + clerk[c].now[i]]
                                         ELSE item[i]]

\* stock: increment, on whatever the row holds when it is written.
StockReceived(c, p) == product[p].stock + clerk[c].add[p]

\* The status, with no condition on the previous one, and the commit.
CommitReceive(c) ==
    /\ clerk[c].pc = "closing"
    /\ product' = [p \in Products |-> IF lock[p] = c
          THEN [product[p] EXCEPT !.stock = StockReceived(c, p),
                                  !.version = @ + Len(clerk[c].rows[p])]
          ELSE product[p]]
    /\ kardex' = [p \in Products |-> kardex[p] \o clerk[c].rows[p]]
    /\ lock' = Released(c)
    /\ item' = ReceivedItems(c)
    /\ itemLock' = ItemsReleased(c)
    /\ order' = [order EXCEPT ![clerk[c].order].status =
          IF clerk[c].allReceived THEN "RECEIVED" ELSE "PARTIAL_RECEIVED"]
    /\ End(c, "done")

\* Item gone or over-received, product gone, version conflict, foreign key of a
\* new item: the request fails and its transaction rolls back.
RefuseWrite(c) ==
    /\ \/ clerk[c].pc \in {"creating", "inserting"} /\ ~StillExist(clerk[c].lines)
       \/ /\ clerk[c].pc = "receiving"
          /\ \E i \in clerk[c].todo : item[i].order # clerk[c].order \/ ~Fits(c, i)
       \/ clerk[c].pc = "checked" /\ ~Exists(ProductOf(clerk[c].current))
       \/ /\ clerk[c].pc = "writing" /\ lock[ProductOf(clerk[c].current)] \in {None, c}
          /\ ~SameVersion(c, ProductOf(clerk[c].current))
       \/ clerk[c].pc = "counting" /\ item[clerk[c].current].order # clerk[c].order
    /\ lock' = Released(c)
    /\ itemLock' = ItemsReleased(c)
    /\ End(c, "refused")
    /\ UNCHANGED <<product, kardex, order, item>>

-----------------------------------------------------------------------------
\* Wrong status, unknown order, empty order, product that cannot be bought.
RefuseClerk(c, o) ==
    /\ \E kind \in Kinds :
          /\ Ready(c, kind)
          /\ \/ kind = "create" /\ ~ \E lines \in OrderLines : Purchasable(lines)
             \/ kind = "update" /\ ~Editable(o)
             \/ kind = "confirm" /\ ~Confirmable(o)
             \/ kind = "cancel" /\ ~Cancellable(o)
             \/ kind = "receive" /\ ~Receivable(o)
    /\ End(c, "refused")
    /\ UNCHANGED <<inventoryVars, order, item, itemLock>>

\* Timeout, deadlock victim, lost connection, crash: the request ends and its
\* open transaction, if it has one, rolls back.
AbortClerk(c) ==
    /\ c \in Served
    /\ lock' = Released(c)
    /\ itemLock' = ItemsReleased(c)
    /\ End(c, "refused")
    /\ UNCHANGED <<product, kardex, order, item>>

ClerkWaitsFor(c, r) ==
    \/ clerk[c].pc = "writing" /\ lock[ProductOf(clerk[c].current)] = r
    \/ clerk[c].pc = "counting" /\ itemLock[clerk[c].current] = r
    \/ /\ clerk[c].pc = "deleting"
       /\ \E i \in clerk[c].todo \cap ItemsOf(clerk[c].order) : itemLock[i] = r

ClerkStep(c) ==
    \/ CreateOrder(c)
    \/ SelectItems(c) \/ DeleteItems(c) \/ CommitUpdate(c)
    \/ Confirm(c) \/ Cancel(c)
    \/ \E i \in ItemId : CheckItem(c, i)
    \/ ReadProduct(c) \/ AddStock(c) \/ CountItem(c)
    \/ ReadItems(c) \/ CommitReceive(c) \/ RefuseWrite(c)

OrdersNext ==
    \E c \in Clerks :
        \/ \E o \in Orders :
              \/ OpenCreate(c, o) \/ OpenUpdate(c, o) \/ OpenConfirm(c, o)
              \/ OpenCancel(c, o) \/ OpenReceive(c, o) \/ RefuseClerk(c, o)
        \/ ClerkStep(c)
        \/ AbortClerk(c)

OrdersVars == <<inventoryVars, ordersVars>>

OrdersAloneInit == InventoryInit /\ OrdersInit

OrdersSpec == OrdersAloneInit /\ [][OrdersNext]_OrdersVars

-----------------------------------------------------------------------------
(* Properties *)

QtyOrdered == [i \in ItemId |-> item[i].qtyOrdered]

QtyReceived == [i \in ItemId |-> item[i].qtyReceived]

\* The items of o that are of p.
ItemsFor(o, p) == {i \in ItemsOf(o) : ProductOf(i) = p}

\* The kardex and the orders agree on the units received: the PURCHASE movements
\* an order left on a product add up to what its items of that product count as
\* received, even when a receipt stops between the two writes; an item that is
\* not tracked is counted and moves nothing.
ReceiptsMatchKardex ==
    \A o \in Orders, p \in Products :
        SumFunctionOnSet(Moved(p), MovementsOf(p, "PURCHASE", o))
            = IF TracksStock(product[p]) THEN SumFunctionOnSet(QtyReceived, ItemsFor(o, p)) ELSE 0

\* An order is RECEIVED only when every item is complete, though each receipt
\* decides the status from what it can see of the others.
ReceivedMeansComplete ==
    \A o \in Orders : order[o].status = "RECEIVED" =>
        \A i \in ItemsOf(o) : item[i].qtyReceived >= item[i].qtyOrdered

\* The totals of an order are those of its items.
TotalsMatchItems ==
    \A o \in Orders, p \in Products :
        order[o].total[p] = SumFunctionOnSet(QtyOrdered, ItemsFor(o, p))

\* 'No payload can leave qtyReceived > qtyOrdered.'
NeverOverReceived == \A i \in ItemId : item[i].qtyReceived <= item[i].qtyOrdered
-----------------------------------------------------------------------------
(* What the service promises *)

Ordered(o, p) == SumFunctionOnSet(QtyOrdered, ItemsFor(o, p))

Received(o, p) == SumFunctionOnSet(QtyReceived, ItemsFor(o, p))

OrdersBook == INSTANCE PurchaseBook WITH
    status   <- [o \in Orders |-> order[o].status],
    ordered  <- [o \in Orders |-> [p \in Products |-> Ordered(o, p)]],
    received <- [o \in Orders |-> [p \in Products |-> Received(o, p)]],
    onHand   <- [p \in Products |-> product[p].stock],
    stocked  <- {p \in Products : TracksStock(product[p])}

\* What the request read no longer holds when it commits: the order has left the
\* status that was checked, or has items the deletion did not see, or the units
\* received are not those the receipt checked and decided the status by.
OutOfDate(c) ==
    LET o == clerk[c].order IN
    \/ clerk[c].pc = "inserting" /\ ~(Editable(o) /\ \A i \in ItemsOf(o) : itemLock[i] = c)
    \/ clerk[c].pc = "confirming" /\ ~Confirmable(o)
    \/ clerk[c].pc = "cancelling" /\ ~Cancellable(o)
    \/ /\ clerk[c].pc = "closing"
       /\ \/ ~Receivable(o)
          \/ \E i \in ItemsOf(o) : ReceivedSeenBy(c, i) > item[i].qtyOrdered
          \/ clerk[c].allReceived # AllReceived(c)

\* The request ends with what it read before others moved on.
StaleEnd(c) == clerk[c].pc # "done" /\ clerk'[c].pc = "done" /\ OutOfDate(c)

\* However the requests cross, fail and wait for each other, the service follows the
\* purchase book: every order goes through its lifecycle, never gets more than it
\* ordered, and what it gets enters stock when it is received.  Only the commit of a
\* request that was overtaken, which no write of the service checks, may leave it.
ImplementsPurchaseBook ==
    /\ OrdersBook!Init
    /\ [][(\E c \in Clerks : StaleEnd(c)) \/ OrdersBook!Next]_(OrdersBook!bookVars)
=============================================================================
