------------------------------ MODULE StoreProofs ------------------------------
(* What holds of the purchase orders for any number of products, orders and     *)
(* clerks, and then of the three services together, from the step lemmas of each. *)
EXTENDS Store, SalesProofs, ProductsProofs, SequenceTheorems

\* An item under way is an item.
NamesItem(local) == local.pc \in {"checked", "writing", "counting"} => local.current \in ItemId

ClerksNameItems == \A c \in Clerks : NamesItem(clerk[c])

OrdersTypeInv == OrdersTypeOK /\ ClerksNameItems

\* The local state of c becomes a well-formed one.
Moves(c) == \E local \in Clerk : clerk' = [clerk EXCEPT ![c] = local] /\ NamesItem(local)

-----------------------------------------------------------------------------
(* Local states *)

\* An item names a product.
LEMMA ItemParts ==
    ASSUME NEW i \in ItemId
    PROVE  ProductOf(i) \in Products
  BY DEF ItemId, ProductOf

\* A clerk that has nothing under way.
LEMMA IdleClerkType ==
    /\ IdleClerk \in Clerk /\ IdleClerk.pc = "idle"
    /\ \A pc \in {"done", "refused"} : [IdleClerk EXCEPT !.pc = pc] \in Clerk
                                          /\ [IdleClerk EXCEPT !.pc = pc].pc = pc
  <1> DEFINE now == [i \in ItemId |-> 0]
             rows == [p \in Products |-> <<>>]
             seen == OpeningRow("absent")
  <1>1. NoLines \in OrderLines /\ NoLines \in [Products -> Nat]
    BY PurchaseOrdersAssumption DEF NoLines, OrderLines
  <1>2. now \in [ItemId -> 0..MaxOrdered]
    BY PurchaseOrdersAssumption
  <1>3. rows \in [Products -> Seq(Movement)]
    OBVIOUS
  <1>4. seen \in ProductRow
    BY OpeningRowType
  <1>5. IdleClerk =
          [pc |-> "idle", order |-> None, lines |-> NoLines, todo |-> {}, now |-> now,
           current |-> None, seen |-> seen, add |-> NoLines, rows |-> rows,
           allReceived |-> FALSE]
    BY DEF IdleClerk
  <1> HIDE DEF now, rows, seen
  <1>6. IdleClerk \in Clerk /\ IdleClerk.pc = "idle"
    BY <1>1, <1>2, <1>3, <1>4, <1>5 DEF Clerk
  <1>7. ASSUME NEW pc \in {"done", "refused"}
        PROVE  [IdleClerk EXCEPT !.pc = pc] \in Clerk /\ [IdleClerk EXCEPT !.pc = pc].pc = pc
    BY <1>6 DEF Clerk
  <1> QED BY <1>6, <1>7

\* A request that ends is left with nothing under way.
LEMMA EndMoves ==
    ASSUME NEW c \in Clerks, NEW pc \in {"done", "refused"}, End(c, pc)
    PROVE  Moves(c)
  BY IdleClerkType DEF End, Moves, NamesItem

\* A clerk that writes an order, a payload or a program counter moves.
LEMMA OpenMoves ==
    ASSUME OrdersTypeOK, NEW c \in Clerks, NEW o \in Orders, NEW lines \in OrderLines,
           NEW pc \in {"creating", "replacing"},
           clerk' = [clerk EXCEPT ![c].pc = pc, ![c].order = o, ![c].lines = lines]
    PROVE  Moves(c)
  <1> DEFINE local == [clerk[c] EXCEPT !.pc = pc, !.order = o, !.lines = lines]
  <1>1. clerk[c] \in Clerk /\ clerk \in [Clerks -> Clerk]
    BY DEF OrdersTypeOK
  <1>2. clerk' = [clerk EXCEPT ![c] = local]
    BY <1>1
  <1>3. local \in Clerk /\ local.pc = pc
    BY <1>1 DEF Clerk
  <1> HIDE DEF local
  <1> QED BY <1>2, <1>3 DEF Moves, NamesItem

\* So does one that names the order it will confirm or cancel.
LEMMA StatusMoves ==
    ASSUME OrdersTypeOK, NEW c \in Clerks, NEW o \in Orders, NEW pc \in {"confirming", "cancelling"},
           clerk' = [clerk EXCEPT ![c].pc = pc, ![c].order = o]
    PROVE  Moves(c)
  <1> DEFINE local == [clerk[c] EXCEPT !.pc = pc, !.order = o]
  <1>1. clerk[c] \in Clerk /\ clerk \in [Clerks -> Clerk]
    BY DEF OrdersTypeOK
  <1>2. clerk' = [clerk EXCEPT ![c] = local]
    BY <1>1
  <1>3. local \in Clerk /\ local.pc = pc
    BY <1>1 DEF Clerk
  <1> HIDE DEF local
  <1> QED BY <1>2, <1>3 DEF Moves, NamesItem

\* The snapshot of an order's items is a set of items.
LEMMA SelectMoves ==
    ASSUME OrdersTypeOK, NEW c \in Clerks, SelectItems(c)
    PROVE  Moves(c)
  <1> DEFINE local == [clerk[c] EXCEPT !.pc = "deleting", !.todo = ItemsOf(clerk[c].order)]
  <1>1. clerk[c] \in Clerk /\ clerk \in [Clerks -> Clerk] /\ ItemsOf(clerk[c].order) \subseteq ItemId
    BY DEF OrdersTypeOK, ItemsOf
  <1>2. clerk' = [clerk EXCEPT ![c] = local]
    BY <1>1 DEF SelectItems
  <1>3. local \in Clerk /\ local.pc = "deleting"
    BY <1>1 DEF Clerk
  <1> HIDE DEF local
  <1> QED BY <1>2, <1>3 DEF Moves, NamesItem

\* A request that has deleted the items goes on to insert.
LEMMA DeleteMoves ==
    ASSUME OrdersTypeOK, NEW c \in Clerks, DeleteItems(c)
    PROVE  Moves(c)
  <1> DEFINE local == [clerk[c] EXCEPT !.pc = "inserting"]
  <1>1. clerk[c] \in Clerk /\ clerk \in [Clerks -> Clerk]
    BY DEF OrdersTypeOK
  <1>2. clerk' = [clerk EXCEPT ![c] = local]
    BY <1>1 DEF DeleteItems
  <1>3. local \in Clerk /\ local.pc = "inserting"
    BY <1>1 DEF Clerk
  <1> HIDE DEF local
  <1> QED BY <1>2, <1>3 DEF Moves, NamesItem

\* A receipt that opens holds items and units of each.
LEMMA OpenReceiveMoves ==
    ASSUME OrdersTypeOK, NEW c \in Clerks, NEW o \in Orders, OpenReceive(c, o)
    PROVE  Moves(c)
  <1>1. PICK now \in [ItemsOf(o) -> 0..MaxOrdered] :
          clerk' = [clerk EXCEPT ![c].pc = "receiving", ![c].order = o,
                ![c].todo = {i \in ItemsOf(o) : now[i] > 0},
                ![c].now = [i \in ItemId |-> IF i \in {j \in ItemsOf(o) : now[j] > 0}
                                             THEN now[i] ELSE 0]]
    BY DEF OpenReceive
  <1> DEFINE chosen == {i \in ItemsOf(o) : now[i] > 0}
             units == [i \in ItemId |-> IF i \in chosen THEN now[i] ELSE 0]
             local == [clerk[c] EXCEPT !.pc = "receiving", !.order = o, !.todo = chosen,
                                       !.now = units]
  <1>2. clerk[c] \in Clerk /\ clerk \in [Clerks -> Clerk]
    BY DEF OrdersTypeOK
  <1>3. chosen \subseteq ItemId
    BY DEF ItemsOf
  <1>4. units \in [ItemId -> 0..MaxOrdered]
    BY PurchaseOrdersAssumption DEF ItemsOf
  <1>5. clerk' = [clerk EXCEPT ![c] = local]
    BY <1>1, <1>2
  <1> HIDE DEF chosen, units
  <1>6. local \in Clerk /\ local.pc = "receiving"
    BY <1>2, <1>3, <1>4 DEF Clerk
  <1> HIDE DEF local
  <1> QED BY <1>5, <1>6 DEF Moves, NamesItem

\* A receipt that checks an item names it.
LEMMA CheckMoves ==
    ASSUME OrdersTypeOK, NEW c \in Clerks, NEW i \in ItemId, CheckItem(c, i)
    PROVE  Moves(c)
  <1> DEFINE local == [clerk[c] EXCEPT !.pc = "checked", !.current = i,
                                       !.todo = clerk[c].todo \ {i}]
  <1>1. clerk[c] \in Clerk /\ clerk \in [Clerks -> Clerk]
    BY DEF OrdersTypeOK
  <1>2. clerk' = [clerk EXCEPT ![c] = local]
    BY <1>1 DEF CheckItem, Clerk
  <1>3. local \in Clerk /\ local.current = i
    BY <1>1 DEF Clerk
  <1> HIDE DEF local
  <1> QED BY <1>2, <1>3 DEF Moves, NamesItem

\* A receipt that read its product holds a product row.
LEMMA ReadProductMoves ==
    ASSUME OrdersTypeInv, NEW c \in Clerks, ReadProduct(c)
    PROVE  Moves(c)
  <1> DEFINE p == ProductOf(clerk[c].current)
             n == product[p].stock + clerk[c].add[p]
             seen == [product[p] EXCEPT !.stock = n]
             pc == IF TracksStock(product[p]) THEN "writing" ELSE "counting"
             local == [clerk[c] EXCEPT !.pc = pc, !.seen = seen]
  <1>1. clerk[c] \in Clerk /\ clerk \in [Clerks -> Clerk]
    BY DEF OrdersTypeInv, OrdersTypeOK
  <1>2. clerk[c].current \in ItemId /\ p \in Products
    BY ItemParts DEF OrdersTypeInv, ClerksNameItems, NamesItem, ReadProduct
  <1>3. seen \in ProductRow
    <2>1. product[p] \in ProductRow /\ n \in Int
      BY <1>1, <1>2 DEF OrdersTypeInv, OrdersTypeOK, InventoryTypeOK, ProductRow, Clerk
    <2> HIDE DEF p, n
    <2> QED BY <2>1, StockSetType
  <1>4. clerk' = [clerk EXCEPT ![c] = local]
    <2>1. product[p] \in ProductRow
      BY <1>2 DEF OrdersTypeInv, OrdersTypeOK, InventoryTypeOK
    <2>2. seen = [product[p] EXCEPT !.stock = @ + clerk[c].add[p]]
      BY <2>1 DEF ProductRow
    <2> HIDE DEF seen
    <2> QED BY <1>1, <2>2 DEF ReadProduct
  <1> HIDE DEF p, seen
  <1>5. local \in Clerk /\ local.pc = pc /\ local.current = clerk[c].current
    BY <1>1, <1>3 DEF Clerk
  <1> HIDE DEF local, pc
  <1> QED BY <1>2, <1>4, <1>5 DEF Moves, NamesItem

\* A receipt that has the product's lock owes an increment and a kardex row.
LEMMA AddStockMoves ==
    ASSUME OrdersTypeInv, NEW c \in Clerks, AddStock(c)
    PROVE  Moves(c)
  <1> DEFINE i == clerk[c].current
             p == ProductOf(i)
             n == clerk[c].now[i]
             s == clerk[c].seen.stock
             movement == MovementRow("PURCHASE", s, s + n, clerk[c].order)
             add == [clerk[c].add EXCEPT ![p] = clerk[c].add[p] + n]
             rows == [clerk[c].rows EXCEPT ![p] = Append(clerk[c].rows[p], movement)]
             local == [clerk[c] EXCEPT !.pc = "counting", !.add = add, !.rows = rows]
  <1>1. clerk[c] \in Clerk /\ clerk \in [Clerks -> Clerk]
    BY DEF OrdersTypeInv, OrdersTypeOK
  <1>2. i \in ItemId /\ p \in Products
    BY ItemParts DEF OrdersTypeInv, ClerksNameItems, NamesItem, AddStock
  <1>3. n \in Nat /\ s \in Int /\ clerk[c].order \in Documents \cup {None}
    BY <1>1, <1>2, PurchaseOrdersAssumption DEF Clerk, ProductRow
  <1>4. movement \in Movement
    <2> HIDE DEF n, s
    <2> QED BY <1>3, MovementRowType DEF MovementType
  <1>5. clerk' = [clerk EXCEPT ![c] = local]
    BY <1>1 DEF AddStock, Clerk
  <1> HIDE DEF i, n, s, movement
  <1>6. add \in [Products -> Nat] /\ rows \in [Products -> Seq(Movement)]
    BY <1>1, <1>2, <1>3, <1>4 DEF Clerk
  <1> HIDE DEF p, add, rows
  <1>7. local \in Clerk /\ local.pc = "counting" /\ local.current = clerk[c].current
    BY <1>1, <1>6 DEF Clerk
  <1> HIDE DEF local
  <1> QED BY <1>2, <1>5, <1>7 DEF Moves, NamesItem, i

\* A receipt that has counted an item goes on to the next.
LEMMA CountMoves ==
    ASSUME OrdersTypeOK, NEW c \in Clerks, CountItem(c)
    PROVE  Moves(c)
  <1> DEFINE local == [clerk[c] EXCEPT !.pc = "receiving", !.current = None]
  <1>1. clerk[c] \in Clerk /\ clerk \in [Clerks -> Clerk]
    BY DEF OrdersTypeOK
  <1>2. clerk' = [clerk EXCEPT ![c] = local]
    BY <1>1 DEF CountItem
  <1>3. local \in Clerk /\ local.pc = "receiving"
    BY <1>1 DEF Clerk
  <1> HIDE DEF local
  <1> QED BY <1>2, <1>3 DEF Moves, NamesItem

\* A receipt that has read the items knows whether the order is complete.
LEMMA ReadItemsMoves ==
    ASSUME OrdersTypeOK, NEW c \in Clerks, ReadItems(c)
    PROVE  Moves(c)
  <1> DEFINE local == [clerk[c] EXCEPT !.pc = "closing", !.allReceived = AllReceived(c)]
  <1>1. clerk[c] \in Clerk /\ clerk \in [Clerks -> Clerk]
    BY DEF OrdersTypeOK
  <1>2. clerk' = [clerk EXCEPT ![c] = local]
    BY <1>1 DEF ReadItems
  <1>3. AllReceived(c) \in BOOLEAN
    BY DEF AllReceived
  <1>4. local \in Clerk /\ local.pc = "closing"
    BY <1>1, <1>3 DEF Clerk
  <1> HIDE DEF local
  <1> QED BY <1>2, <1>4 DEF Moves, NamesItem

-----------------------------------------------------------------------------
(* Tables *)

\* What Moves says of the clerks' table.
LEMMA MovesKeepClerks ==
    ASSUME OrdersTypeInv, NEW c \in Clerks, Moves(c)
    PROVE  clerk' \in [Clerks -> Clerk] /\ ClerksNameItems'
  <1>1. clerk \in [Clerks -> Clerk] /\ \A d \in Clerks : NamesItem(clerk[d])
    BY DEF OrdersTypeInv, OrdersTypeOK, ClerksNameItems
  <1>2. PICK local \in Clerk : clerk' = [clerk EXCEPT ![c] = local] /\ NamesItem(local)
    BY DEF Moves
  <1>3. clerk' \in [Clerks -> Clerk] /\ \A d \in Clerks : NamesItem(clerk'[d])
    BY <1>1, <1>2
  <1>4. \A d \in Clerks : NamesItem(clerk'[d]) <=> NamesItem(clerk[d])'
    BY DEF NamesItem
  <1> QED BY <1>3, <1>4 DEF ClerksNameItems

\* A step that moves a clerk and keeps the other tables well formed.
LEMMA KeepsType ==
    ASSUME OrdersTypeInv, NEW c \in Clerks, Moves(c), InventoryTypeOK',
           order' \in [Orders -> OrderRow], item' \in [ItemId -> ItemRow],
           itemLock' \in [ItemId -> Clerks \cup {None}]
    PROVE  OrdersTypeInv'
  BY MovesKeepClerks DEF OrdersTypeInv, OrdersTypeOK

\* The inventory is well formed as long as nothing of it changes.
LEMMA InventoryStutter ==
    ASSUME InventoryTypeOK, UNCHANGED inventoryVars
    PROVE  InventoryTypeOK'
  BY DEF InventoryTypeOK, inventoryVars

\* Inserting the lines of an order leaves items.
LEMMA InsertType ==
    ASSUME NEW table \in [ItemId -> ItemRow], NEW w, NEW lines \in OrderLines,
           NEW o \in Orders \cup {None}
    PROVE  Insert(table, w, lines, o) \in [ItemId -> ItemRow]
  <1> SUFFICES ASSUME NEW i \in ItemId, lines[i[2]] > 0
               PROVE  [order |-> o, qtyOrdered |-> lines[i[2]], qtyReceived |-> 0] \in ItemRow
    BY DEF Insert
  <1>1. i[2] \in Products
    BY DEF ItemId
  <1>2. lines[i[2]] \in Nat
    BY <1>1, PurchaseOrdersAssumption DEF OrderLines
  <1> QED BY <1>2 DEF ItemRow

\* An update that lost some of its items, and a receipt that counted some, leave items.
LEMMA ItemTables ==
    ASSUME OrdersTypeOK, NEW c \in Clerks
    PROVE  /\ RemainingItems(c) \in [ItemId -> ItemRow]
           /\ ReceivedItems(c) \in [ItemId -> ItemRow]
           /\ ItemsReleased(c) \in [ItemId -> Clerks \cup {None}]
  <1>1. item \in [ItemId -> ItemRow] /\ clerk[c].now \in [ItemId -> 0..MaxOrdered]
    BY DEF OrdersTypeOK, Clerk
  <1>2. NoItem \in ItemRow
    BY DEF NoItem, ItemRow
  <1>3. \A i \in ItemId : [item[i] EXCEPT !.qtyReceived = item[i].qtyReceived + clerk[c].now[i]]
                            \in ItemRow
    <2> TAKE i \in ItemId
    <2>1. item[i] \in ItemRow /\ clerk[c].now[i] \in Nat
      BY <1>1, PurchaseOrdersAssumption
    <2>2. item[i].qtyReceived + clerk[c].now[i] \in Nat
      BY <2>1 DEF ItemRow
    <2> QED BY <2>1, <2>2 DEF ItemRow
  <1>4. \A i \in ItemId : [item[i] EXCEPT !.qtyReceived = @ + clerk[c].now[i]] \in ItemRow
    BY <1>3
  <1>5. ItemsReleased(c) \in [ItemId -> Clerks \cup {None}]
    BY DEF ItemsReleased, OrdersTypeOK
  <1> QED BY <1>1, <1>2, <1>4, <1>5 DEF RemainingItems, ReceivedItems

\* A status is all that confirm, cancel and receive write of an order.
LEMMA StatusType ==
    ASSUME OrdersTypeOK, NEW o, NEW status \in OrderStatus
    PROVE  [order EXCEPT ![o].status = status] \in [Orders -> OrderRow]
  <1>1. order \in [Orders -> OrderRow]
    BY DEF OrdersTypeOK
  <1>2. \A r \in OrderRow : [r EXCEPT !.status = status] \in OrderRow
    BY DEF OrderRow
  <1> QED BY <1>1, <1>2

\* The commit of a receipt leaves product rows and kardex rows.
LEMMA ReceiveType ==
    ASSUME OrdersTypeOK, NEW c \in Clerks, CommitReceive(c)
    PROVE  InventoryTypeOK'
  <1>0. /\ product \in [Products -> ProductRow] /\ kardex \in [Products -> Seq(Movement)]
        /\ clerk[c].rows \in [Products -> Seq(Movement)] /\ clerk[c].add \in [Products -> Nat]
    BY DEF OrdersTypeOK, InventoryTypeOK, Clerk
  <1>1. kardex' \in [Products -> Seq(Movement)]
    <2>1. \A p \in Products : kardex[p] \o clerk[c].rows[p] \in Seq(Movement)
      BY <1>0
    <2> QED BY <2>1 DEF CommitReceive
  <1>2. lock' \in [Products -> Requests \cup {None}]
    BY ReleasedType DEF CommitReceive, OrdersTypeOK
  <1>3. ASSUME NEW p \in Products
        PROVE  [product[p] EXCEPT !.stock = StockReceived(c, p),
                                  !.version = @ + Len(clerk[c].rows[p])] \in ProductRow
    <2> DEFINE n == StockReceived(c, p)
               v == product[p].version + Len(clerk[c].rows[p])
    <2>1. n \in Int
      BY <1>0 DEF StockReceived, ProductRow
    <2>2. v \in Nat
      BY <1>0 DEF ProductRow
    <2>3. [product[p] EXCEPT !.stock = n, !.version = v] \in ProductRow
      <3> HIDE DEF n, v
      <3> QED BY <1>0, <2>1, <2>2 DEF ProductRow
    <2> QED BY <1>0, <2>3 DEF ProductRow
  <1>4. product' \in [Products -> ProductRow]
    BY <1>0, <1>3 DEF CommitReceive
  <1> QED BY <1>1, <1>2, <1>4 DEF InventoryTypeOK

-----------------------------------------------------------------------------
(* Type correctness *)

\* The orders a behaviour starts with are well formed.
LEMMA OrdersInitType ==
    ASSUME InventoryInit, OrdersInit
    PROVE  OrdersTypeInv
  <1>1. PICK status \in [Orders -> OpeningStatus], lines \in [Orders -> OrderLines \ {NoLines}] :
          /\ order = [o \in Orders |-> [status |-> status[o],
                total |-> IF status[o] = "none" THEN NoLines ELSE lines[o]]]
          /\ item = [i \in ItemId |->
                IF i[1] \in Orders /\ status[i[1]] # "none" /\ lines[i[1]][i[2]] > 0
                THEN [order |-> i[1], qtyOrdered |-> lines[i[1]][i[2]], qtyReceived |-> 0]
                ELSE NoItem]
    BY DEF OrdersInit
  <1>2. NoLines \in OrderLines
    BY PurchaseOrdersAssumption DEF NoLines, OrderLines
  <1>3. \A o \in Orders : status[o] \in OrderStatus /\ lines[o] \in OrderLines
    BY PurchaseOrdersAssumption DEF OrderStatus
  <1>4. order \in [Orders -> OrderRow]
    BY <1>1, <1>2, <1>3 DEF OrderRow
  <1>5. item \in [ItemId -> ItemRow]
    <2> SUFFICES ASSUME NEW i \in ItemId, i[1] \in Orders
                 PROVE  [order |-> i[1], qtyOrdered |-> lines[i[1]][i[2]], qtyReceived |-> 0]
                           \in ItemRow
      BY <1>1 DEF NoItem, ItemRow
    <2>1. i[2] \in Products
      BY DEF ItemId
    <2>2. lines[i[1]][i[2]] \in Nat
      BY <1>3, <2>1, PurchaseOrdersAssumption DEF OrderLines
    <2> QED BY <2>2 DEF ItemRow
  <1>6. itemLock \in [ItemId -> Clerks \cup {None}]
    BY DEF OrdersInit
  <1>7. clerk \in [Clerks -> Clerk] /\ ClerksNameItems
    BY IdleClerkType DEF OrdersInit, ClerksNameItems, NamesItem
  <1> QED BY <1>4, <1>5, <1>6, <1>7, InventoryInitType DEF OrdersTypeInv, OrdersTypeOK

\* Every step of the purchase orders keeps the tables well formed.
LEMMA OrdersStepType ==
    ASSUME OrdersTypeInv, OrdersNext
    PROVE  OrdersTypeInv'
  <1> USE DEF OrdersTypeInv
  <1>0. /\ order \in [Orders -> OrderRow] /\ item \in [ItemId -> ItemRow]
        /\ itemLock \in [ItemId -> Clerks \cup {None}] /\ clerk \in [Clerks -> Clerk]
        /\ InventoryTypeOK
    BY DEF OrdersTypeOK
  <1> DEFINE Tables == order' = order /\ item' = item /\ itemLock' = itemLock
                          /\ UNCHANGED inventoryVars
  <1>q. ASSUME NEW c \in Clerks, Moves(c), Tables
        PROVE  OrdersTypeInv'
    BY <1>0, <1>q, InventoryStutter, KeepsType
  <1>1. ASSUME NEW c \in Clerks, NEW o \in Orders, OpenCreate(c, o) \/ OpenUpdate(c, o)
        PROVE  OrdersTypeInv'
    <2>1. Moves(c)
      BY <1>1, OpenMoves DEF OpenCreate, OpenUpdate
    <2>2. Tables
      BY <1>1 DEF OpenCreate, OpenUpdate
    <2> QED BY <1>q, <2>1, <2>2
  <1>2. ASSUME NEW c \in Clerks, NEW o \in Orders, OpenConfirm(c, o) \/ OpenCancel(c, o)
        PROVE  OrdersTypeInv'
    <2>1. Moves(c)
      BY <1>2, StatusMoves DEF OpenConfirm, OpenCancel
    <2>2. Tables
      BY <1>2 DEF OpenConfirm, OpenCancel
    <2> QED BY <1>q, <2>1, <2>2
  <1>3. ASSUME NEW c \in Clerks, NEW o \in Orders, OpenReceive(c, o) \/ RefuseClerk(c, o)
        PROVE  OrdersTypeInv'
    <2>1. Moves(c)
      BY <1>3, OpenReceiveMoves, EndMoves DEF RefuseClerk
    <2>2. Tables
      BY <1>3 DEF OpenReceive, RefuseClerk
    <2> QED BY <1>q, <2>1, <2>2
  <1>4. ASSUME NEW c \in Clerks,
               \/ SelectItems(c) \/ ReadProduct(c) \/ ReadItems(c)
               \/ \E i \in ItemId : CheckItem(c, i)
        PROVE  OrdersTypeInv'
    <2>1. Moves(c)
      BY <1>4, SelectMoves, ReadProductMoves, ReadItemsMoves, CheckMoves
    <2>2. Tables
      BY <1>4 DEF SelectItems, ReadProduct, ReadItems, CheckItem
    <2> QED BY <1>q, <2>1, <2>2
  <1>5. ASSUME NEW c \in Clerks, CreateOrder(c)
        PROVE  OrdersTypeInv'
    <2> DEFINE o == clerk[c].order
               row == [status |-> "DRAFT", total |-> clerk[c].lines]
    <2>1. o \in Orders \cup {None} /\ clerk[c].lines \in OrderLines
      BY <1>0 DEF Clerk
    <2>2. row \in OrderRow
      BY <2>1 DEF OrderRow, OrderStatus
    <2>3. order' \in [Orders -> OrderRow]
      BY <1>0, <1>5, <2>2 DEF CreateOrder
    <2>4. item' \in [ItemId -> ItemRow]
      BY <1>0, <1>5, <2>1, InsertType DEF CreateOrder
    <2>5. Moves(c) /\ itemLock' = itemLock /\ InventoryTypeOK'
      BY <1>0, <1>5, EndMoves, InventoryStutter DEF CreateOrder
    <2> QED BY <1>0, <2>3, <2>4, <2>5, KeepsType
  <1>6. ASSUME NEW c \in Clerks, DeleteItems(c)
        PROVE  OrdersTypeInv'
    <2>1. itemLock' \in [ItemId -> Clerks \cup {None}]
      BY <1>0, <1>6 DEF DeleteItems
    <2>2. Moves(c) /\ item' = item /\ order' = order /\ InventoryTypeOK'
      BY <1>0, <1>6, DeleteMoves, InventoryStutter DEF DeleteItems
    <2> QED BY <1>0, <2>1, <2>2, KeepsType
  <1>7. ASSUME NEW c \in Clerks, CommitUpdate(c)
        PROVE  OrdersTypeInv'
    <2>1. clerk[c].order \in Orders \cup {None} /\ clerk[c].lines \in OrderLines
      BY <1>0 DEF Clerk
    <2>2. item' \in [ItemId -> ItemRow]
      BY <1>7, <2>1, ItemTables, InsertType DEF CommitUpdate
    <2>3. \A r \in OrderRow : [r EXCEPT !.total = clerk[c].lines] \in OrderRow
      BY <2>1 DEF OrderRow
    <2>4. order' \in [Orders -> OrderRow]
      BY <1>0, <1>7, <2>3 DEF CommitUpdate
    <2>5. itemLock' \in [ItemId -> Clerks \cup {None}]
      BY <1>7, ItemTables DEF CommitUpdate
    <2>6. Moves(c) /\ InventoryTypeOK'
      BY <1>0, <1>7, EndMoves, InventoryStutter DEF CommitUpdate
    <2> QED BY <2>2, <2>4, <2>5, <2>6, KeepsType
  <1>8. ASSUME NEW c \in Clerks, Confirm(c) \/ Cancel(c)
        PROVE  OrdersTypeInv'
    <2>1. order' \in [Orders -> OrderRow]
      <3>1. "PENDING" \in OrderStatus /\ "CANCELLED" \in OrderStatus
        BY DEF OrderStatus
      <3>2. /\ [order EXCEPT ![clerk[c].order].status = "PENDING"] \in [Orders -> OrderRow]
            /\ [order EXCEPT ![clerk[c].order].status = "CANCELLED"] \in [Orders -> OrderRow]
        BY <3>1, StatusType
      <3> QED BY <1>8, <3>2 DEF Confirm, Cancel
    <2>2. Moves(c) /\ item' = item /\ itemLock' = itemLock /\ InventoryTypeOK'
      BY <1>0, <1>8, EndMoves, InventoryStutter DEF Confirm, Cancel
    <2> QED BY <1>0, <2>1, <2>2, KeepsType
  <1>9. ASSUME NEW c \in Clerks, AddStock(c)
        PROVE  OrdersTypeInv'
    <2>1. InventoryTypeOK'
      BY <1>0, <1>9, PurchaseOrdersAssumption DEF AddStock, InventoryTypeOK
    <2>2. Moves(c) /\ order' = order /\ item' = item /\ itemLock' = itemLock
      BY <1>9, AddStockMoves DEF AddStock
    <2> QED BY <1>0, <2>1, <2>2, KeepsType
  <1>10. ASSUME NEW c \in Clerks, CountItem(c)
         PROVE  OrdersTypeInv'
    <2>1. itemLock' \in [ItemId -> Clerks \cup {None}]
      BY <1>0, <1>10 DEF CountItem
    <2>2. Moves(c) /\ order' = order /\ item' = item /\ InventoryTypeOK'
      BY <1>0, <1>10, CountMoves, InventoryStutter DEF CountItem
    <2> QED BY <1>0, <2>1, <2>2, KeepsType
  <1>11. ASSUME NEW c \in Clerks, CommitReceive(c)
         PROVE  OrdersTypeInv'
    <2>1. InventoryTypeOK'
      BY <1>11, ReceiveType
    <2>2. order' \in [Orders -> OrderRow]
      <3> DEFINE status == IF clerk[c].allReceived THEN "RECEIVED" ELSE "PARTIAL_RECEIVED"
      <3>1. status \in OrderStatus
        BY DEF OrderStatus
      <3>2. order' = [order EXCEPT ![clerk[c].order].status = status]
        BY <1>11 DEF CommitReceive
      <3> HIDE DEF status
      <3>3. [order EXCEPT ![clerk[c].order].status = status] \in [Orders -> OrderRow]
        BY <3>1, StatusType
      <3> QED BY <3>2, <3>3
    <2>3. item' \in [ItemId -> ItemRow] /\ itemLock' \in [ItemId -> Clerks \cup {None}]
      BY <1>11, ItemTables DEF CommitReceive
    <2>4. Moves(c)
      BY <1>11, EndMoves DEF CommitReceive
    <2> QED BY <2>1, <2>2, <2>3, <2>4, KeepsType
  <1>12. ASSUME NEW c \in Clerks, RefuseWrite(c) \/ AbortClerk(c)
         PROVE  OrdersTypeInv'
    <2>1. Moves(c)
      BY <1>12, EndMoves DEF RefuseWrite, AbortClerk
    <2>2. /\ lock' = Released(c) /\ itemLock' = ItemsReleased(c)
          /\ UNCHANGED <<product, kardex, order, item>>
      BY <1>12 DEF RefuseWrite, AbortClerk
    <2>3. InventoryTypeOK'
      BY <1>0, <2>2, ReleasedType DEF InventoryTypeOK
    <2>4. itemLock' \in [ItemId -> Clerks \cup {None}]
      BY <2>2, ItemTables
    <2> QED BY <1>0, <2>1, <2>2, <2>3, <2>4, KeepsType
  <1> QED
    BY <1>1, <1>2, <1>3, <1>4, <1>5, <1>6, <1>7, <1>8, <1>9, <1>10, <1>11, <1>12
    DEF OrdersNext, ClerkStep

\* Steps of other services that leave the orders alone keep them well formed.
LEMMA OrdersStutterType ==
    ASSUME OrdersTypeInv, InventoryTypeOK', UNCHANGED ordersVars
    PROVE  OrdersTypeInv'
  BY DEF OrdersTypeInv, OrdersTypeOK, ordersVars, ClerksNameItems, NamesItem

\* Orders, items, their locks and the requests under way are always well formed.
THEOREM OrdersTypeCorrect == OrdersSpec => []OrdersTypeOK
  <1>1. InventoryInit /\ OrdersInit => OrdersTypeInv
    BY OrdersInitType
  <1>2. OrdersTypeInv /\ [OrdersNext]_OrdersVars => OrdersTypeInv'
    <2> SUFFICES ASSUME OrdersTypeInv, UNCHANGED OrdersVars PROVE OrdersTypeInv'
      BY OrdersStepType
    <2>1. UNCHANGED inventoryVars /\ UNCHANGED ordersVars
      BY DEF OrdersVars
    <2> QED BY <2>1, InventoryStutter, OrdersStutterType DEF OrdersTypeInv, OrdersTypeOK
  <1>3. OrdersTypeInv => OrdersTypeOK
    BY DEF OrdersTypeInv
  <1> QED BY <1>1, <1>2, <1>3, PTL DEF OrdersSpec, OrdersAloneInit

-----------------------------------------------------------------------------
(* The kardex of the purchase orders *)

\* The units a kardex says were received for order o.
PurchaseRows(rows, o) == {i \in DOMAIN rows : rows[i].type = "PURCHASE" /\ rows[i].source = o}

Purchased(rows, o) == SumFunctionOnSet([i \in DOMAIN rows |-> rows[i].quantity], PurchaseRows(rows, o))

\* The kardex of p as it will read when c, who holds the row, commits, and the
\* stock the row will have.
Ahead(local, p) == kardex[p] \o local.rows[p]

StockAhead(local, p) == product[p].stock + local.add[p]

ReceivingStates == {"receiving", "checked", "writing", "counting", "closing"}

\* The units of p that will have been received for order o.
PurchasedAhead(local, p, o) ==
    Purchased(kardex[p], o) + IF o = local.order THEN local.add[p] ELSE 0

\* What a receipt holds back for the rows it has locked is their next history, in
\* which it received what it adds, and nothing else; for the others it holds nothing
\* back.
HoldsBack(c, local) ==
    \A p \in Products :
        IF lock[p] = c
        THEN /\ local.pc \in ReceivingStates /\ local.rows[p] # <<>>
             /\ MovedUnits(Ahead(local, p)) = StockAhead(local, p)
             /\ Chains(Ahead(local, p), StockAhead(local, p))
             /\ \A o \in Orders : Purchased(Ahead(local, p), o) = PurchasedAhead(local, p, o)
             /\ TracksStock(product[p])
        ELSE local.rows[p] = <<>> /\ local.add[p] = 0

\* A receipt about to write has read the row as it is, unless its version has moved on.
ReadsTheRow(c, local) ==
    local.pc = "writing" =>
        LET p == ProductOf(local.current) IN
        /\ TracksStock(product[p])
        /\ local.seen.version <= product[p].version
        /\ lock[p] = c => local.seen.version = product[p].version
        /\ local.seen.version = product[p].version => local.seen.stock = StockAhead(local, p)

OrdersKardexInv ==
    /\ \A p \in Products : Accounted(p)
    /\ \A c \in Clerks : HoldsBack(c, clerk[c]) /\ ReadsTheRow(c, clerk[c])

\* A step that leaves the inventory alone.
LEMMA KardexQuiet ==
    ASSUME OrdersTypeInv, OrdersKardexInv, UNCHANGED inventoryVars,
           NEW c \in Clerks, NEW local, clerk' = [clerk EXCEPT ![c] = local],
           HoldsBack(c, local), ReadsTheRow(c, local)
    PROVE  OrdersKardexInv'
  <1>1. /\ clerk \in [Clerks -> Clerk]
        /\ product' = product /\ kardex' = kardex /\ lock' = lock
    BY DEF OrdersTypeInv, OrdersTypeOK, inventoryVars
  <1>2. ASSUME NEW p \in Products PROVE Accounted(p)'
    BY <1>1 DEF OrdersKardexInv, Accounted, MovedUnits, Chains
  <1>3. ASSUME NEW d \in Clerks
        PROVE  HoldsBack(d, clerk[d])' /\ ReadsTheRow(d, clerk[d])'
    <2>1. clerk'[d] = IF d = c THEN local ELSE clerk[d]
      BY <1>1
    <2>2. HoldsBack(d, clerk'[d]) /\ ReadsTheRow(d, clerk'[d])
      BY <2>1 DEF OrdersKardexInv
    <2>3. ReadsTheRow(d, clerk[d])'
      BY <1>1, <2>2 DEF ReadsTheRow, StockAhead
    <2>4. \A q \in Products :
             /\ Ahead(clerk[d], q)' = Ahead(clerk'[d], q)
             /\ StockAhead(clerk[d], q)' = StockAhead(clerk'[d], q)
             /\ \A o \in Orders : PurchasedAhead(clerk[d], q, o)' = PurchasedAhead(clerk'[d], q, o)
      BY <1>1 DEF Ahead, StockAhead, PurchasedAhead, Purchased, PurchaseRows
    <2>5. ASSUME NEW q \in Products
          PROVE  IF lock'[q] = d
                 THEN /\ clerk'[d].pc \in ReceivingStates /\ clerk'[d].rows[q] # <<>>
                      /\ (MovedUnits(Ahead(clerk[d], q)) = StockAhead(clerk[d], q))'
                      /\ Chains(Ahead(clerk[d], q), StockAhead(clerk[d], q))'
                      /\ (\A o \in Orders :
                            Purchased(Ahead(clerk[d], q), o) = PurchasedAhead(clerk[d], q, o))'
                      /\ TracksStock(product[q])'
                 ELSE clerk'[d].rows[q] = <<>> /\ clerk'[d].add[q] = 0
      <3>1. CASE lock[q] # d
        BY <1>1, <2>2, <3>1 DEF HoldsBack
      <3>2. CASE lock[q] = d
        <4>1. /\ clerk'[d].pc \in ReceivingStates /\ clerk'[d].rows[q] # <<>>
              /\ MovedUnits(Ahead(clerk'[d], q)) = StockAhead(clerk'[d], q)
              /\ Chains(Ahead(clerk'[d], q), StockAhead(clerk'[d], q))
              /\ \A o \in Orders :
                    Purchased(Ahead(clerk'[d], q), o) = PurchasedAhead(clerk'[d], q, o)
              /\ TracksStock(product[q])
          BY <2>2, <3>2 DEF HoldsBack
        <4>2. (MovedUnits(Ahead(clerk[d], q)) = StockAhead(clerk[d], q))'
          BY <2>4, <4>1 DEF MovedUnits
        <4>3. Chains(Ahead(clerk[d], q), StockAhead(clerk[d], q))'
          BY <2>4, <4>1 DEF Chains
        <4>4. (\A o \in Orders :
                 Purchased(Ahead(clerk[d], q), o) = PurchasedAhead(clerk[d], q, o))'
          BY <2>4, <4>1 DEF Purchased, PurchaseRows
        <4>5. TracksStock(product[q])'
          BY <1>1, <4>1 DEF TracksStock
        <4> QED BY <1>1, <3>2, <4>1, <4>2, <4>3, <4>4, <4>5
      <3> QED BY <3>1, <3>2
    <2>6. HoldsBack(d, clerk[d])'
      BY <2>5 DEF HoldsBack
    <2> QED BY <2>3, <2>6
  <1> QED BY <1>2, <1>3 DEF OrdersKardexInv

\* The steps of a receipt that only read, and those that count an item.
LEMMA ReceiptQuiet ==
    ASSUME OrdersTypeInv, OrdersKardexInv, NEW c \in Clerks,
           (\E i \in ItemId : CheckItem(c, i)) \/ CountItem(c) \/ ReadItems(c)
    PROVE  OrdersKardexInv'
  <1>0. clerk[c] \in Clerk /\ clerk \in [Clerks -> Clerk]
    BY DEF OrdersTypeInv, OrdersTypeOK
  <1> DEFINE same(local) == /\ local.rows = clerk[c].rows /\ local.add = clerk[c].add
                            /\ local.order = clerk[c].order
                            /\ local.pc \in ReceivingStates \ {"writing"}
  <1>1. PICK local : clerk' = [clerk EXCEPT ![c] = local] /\ same(local)
    <2>1. CASE \E i \in ItemId : CheckItem(c, i)
      <3>1. PICK i \in ItemId : CheckItem(c, i)
        BY <2>1
      <3> DEFINE local == [clerk[c] EXCEPT !.pc = "checked", !.current = i,
                                           !.todo = clerk[c].todo \ {i}]
      <3>2. clerk' = [clerk EXCEPT ![c] = local]
        BY <1>0, <3>1 DEF CheckItem, Clerk
      <3>3. same(local)
        BY <1>0 DEF Clerk, ReceivingStates
      <3> QED BY <3>2, <3>3
    <2>2. CASE CountItem(c)
      <3> DEFINE local == [clerk[c] EXCEPT !.pc = "receiving", !.current = None]
      <3>2. clerk' = [clerk EXCEPT ![c] = local]
        BY <1>0, <2>2 DEF CountItem, Clerk
      <3>3. same(local)
        BY <1>0 DEF Clerk, ReceivingStates
      <3> QED BY <3>2, <3>3
    <2>3. CASE ReadItems(c)
      <3> DEFINE local == [clerk[c] EXCEPT !.pc = "closing", !.allReceived = AllReceived(c)]
      <3>2. clerk' = [clerk EXCEPT ![c] = local]
        BY <1>0, <2>3 DEF ReadItems, Clerk
      <3>3. same(local)
        BY <1>0 DEF Clerk, ReceivingStates
      <3> QED BY <3>2, <3>3
    <2> QED BY <2>1, <2>2, <2>3
  <1>2. UNCHANGED inventoryVars
    BY DEF CheckItem, CountItem, ReadItems
  <1>3. HoldsBack(c, local)
    BY <1>1 DEF OrdersKardexInv, HoldsBack, Ahead, StockAhead, PurchasedAhead
  <1>4. ReadsTheRow(c, local)
    BY <1>1 DEF ReadsTheRow
  <1> HIDE DEF same
  <1> QED BY <1>1, <1>2, <1>3, <1>4, KardexQuiet

\* A receipt that reads the row of a product reads what it will write on.
LEMMA ReadProductKardex ==
    ASSUME OrdersTypeInv, OrdersKardexInv, NEW c \in Clerks, ReadProduct(c)
    PROVE  OrdersKardexInv'
  <1> DEFINE p == ProductOf(clerk[c].current)
             n == product[p].stock + clerk[c].add[p]
             seen == [product[p] EXCEPT !.stock = n]
             pc == IF TracksStock(product[p]) THEN "writing" ELSE "counting"
             local == [clerk[c] EXCEPT !.pc = pc, !.seen = seen]
  <1>0. clerk[c] \in Clerk /\ clerk \in [Clerks -> Clerk]
    BY DEF OrdersTypeInv, OrdersTypeOK
  <1>1. clerk[c].current \in ItemId /\ p \in Products /\ clerk[c].pc = "checked"
    BY ItemParts DEF OrdersTypeInv, ClerksNameItems, NamesItem, ReadProduct
  <1>2. product[p] \in ProductRow /\ product[p].version \in Nat
    BY <1>1 DEF OrdersTypeInv, OrdersTypeOK, InventoryTypeOK, ProductRow
  <1>3. clerk' = [clerk EXCEPT ![c] = local] /\ UNCHANGED inventoryVars
    <2>2. seen = [product[p] EXCEPT !.stock = @ + clerk[c].add[p]]
      BY <1>2 DEF ProductRow
    <2> HIDE DEF seen
    <2> QED BY <1>0, <2>2 DEF ReadProduct
  <1>4. seen.version = product[p].version /\ seen.stock = n
    BY <1>2 DEF ProductRow
  <1> HIDE DEF seen
  <1>5. /\ local.rows = clerk[c].rows /\ local.add = clerk[c].add /\ local.pc = pc
        /\ local.seen = seen /\ local.current = clerk[c].current
        /\ local.order = clerk[c].order
    BY <1>0 DEF Clerk
  <1> HIDE DEF local
  <1>6. HoldsBack(c, local)
    BY <1>5 DEF OrdersKardexInv, HoldsBack, Ahead, StockAhead, PurchasedAhead, ReceivingStates
  <1>7. ReadsTheRow(c, local)
    BY <1>2, <1>4, <1>5 DEF ReadsTheRow, StockAhead
  <1> QED BY <1>3, <1>6, <1>7, KardexQuiet

\* A request that ends holds nothing back.
LEMMA EndsWithNothing ==
    ASSUME NEW c \in Clerks, NEW pc \in {"done", "refused"}, End(c, pc)
    PROVE  \E local \in Clerk :
              /\ clerk' = [clerk EXCEPT ![c] = local] /\ local.pc = pc
              /\ \A p \in Products : local.rows[p] = <<>> /\ local.add[p] = 0
  <1> DEFINE local == [IdleClerk EXCEPT !.pc = pc]
  <1>1. clerk' = [clerk EXCEPT ![c] = local] /\ local \in Clerk /\ local.pc = pc
    BY IdleClerkType DEF End
  <1>2. local.rows = [p \in Products |-> <<>>] /\ local.add = NoLines
    BY DEF IdleClerk
  <1>3. \A p \in Products : local.rows[p] = <<>> /\ local.add[p] = 0
    BY <1>2 DEF NoLines
  <1> HIDE DEF local
  <1> QED BY <1>1, <1>3

\* Requests that are not receipts, and receipts that open, hold nothing back.
LEMMA OtherQuiet ==
    ASSUME OrdersTypeInv, OrdersKardexInv, NEW c \in Clerks,
           \/ \E o \in Orders : \/ OpenCreate(c, o) \/ OpenUpdate(c, o) \/ OpenConfirm(c, o)
                                \/ OpenCancel(c, o) \/ OpenReceive(c, o) \/ RefuseClerk(c, o)
           \/ CreateOrder(c) \/ SelectItems(c) \/ DeleteItems(c) \/ CommitUpdate(c)
           \/ Confirm(c) \/ Cancel(c)
    PROVE  OrdersKardexInv'
  <1>0. clerk[c] \in Clerk /\ clerk \in [Clerks -> Clerk]
    BY DEF OrdersTypeInv, OrdersTypeOK
  <1> DEFINE empty == [p \in Products |-> <<>>]
  <1>1. UNCHANGED inventoryVars
    BY DEF OpenCreate, OpenUpdate, OpenConfirm, OpenCancel, OpenReceive, RefuseClerk, CreateOrder,
           SelectItems, DeleteItems, CommitUpdate, Confirm, Cancel
  <1>2. clerk[c].pc \notin ReceivingStates
    BY DEF OpenCreate, OpenUpdate, OpenConfirm, OpenCancel, OpenReceive, RefuseClerk, CreateOrder,
           SelectItems, DeleteItems, CommitUpdate, Confirm, Cancel, Ready, ReceivingStates
  <1>3. \A p \in Products : lock[p] # c /\ clerk[c].rows[p] = <<>> /\ clerk[c].add[p] = 0
    BY <1>2 DEF OrdersKardexInv, HoldsBack
  <1>4. PICK local : clerk' = [clerk EXCEPT ![c] = local] /\ local.pc # "writing"
                       /\ \A p \in Products : local.rows[p] = <<>> /\ local.add[p] = 0
    <2>1. CASE \E o \in Orders : OpenCreate(c, o) \/ OpenUpdate(c, o)
      <3>1. PICK o \in Orders, lines \in OrderLines, pc \in {"creating", "replacing"} :
               clerk' = [clerk EXCEPT ![c].pc = pc, ![c].order = o, ![c].lines = lines]
        BY <2>1 DEF OpenCreate, OpenUpdate
      <3> DEFINE local == [clerk[c] EXCEPT !.pc = pc, !.order = o, !.lines = lines]
      <3>2. clerk' = [clerk EXCEPT ![c] = local]
        BY <1>0, <3>1
      <3>3. local.pc = pc /\ local.rows = clerk[c].rows /\ local.add = clerk[c].add
        BY <1>0 DEF Clerk
      <3> QED BY <1>3, <3>2, <3>3
    <2>2. CASE \E o \in Orders : OpenConfirm(c, o) \/ OpenCancel(c, o)
      <3>1. PICK o \in Orders, pc \in {"confirming", "cancelling"} :
               clerk' = [clerk EXCEPT ![c].pc = pc, ![c].order = o]
        BY <2>2 DEF OpenConfirm, OpenCancel
      <3> DEFINE local == [clerk[c] EXCEPT !.pc = pc, !.order = o]
      <3>2. clerk' = [clerk EXCEPT ![c] = local]
        BY <1>0, <3>1
      <3>3. local.pc = pc /\ local.rows = clerk[c].rows /\ local.add = clerk[c].add
        BY <1>0 DEF Clerk
      <3> QED BY <1>3, <3>2, <3>3
    <2>3. CASE \E o \in Orders : OpenReceive(c, o)
      <3>0. PICK o \in Orders : OpenReceive(c, o)
        BY <2>3
      <3>1. PICK chosen, units :
               clerk' = [clerk EXCEPT ![c].pc = "receiving", ![c].order = o, ![c].todo = chosen,
                                      ![c].now = units]
        BY <3>0 DEF OpenReceive
      <3> DEFINE local == [clerk[c] EXCEPT !.pc = "receiving", !.order = o, !.todo = chosen,
                                           !.now = units]
      <3>2. clerk' = [clerk EXCEPT ![c] = local]
        BY <1>0, <3>1
      <3>3. local.pc = "receiving" /\ local.rows = clerk[c].rows /\ local.add = clerk[c].add
        BY <1>0 DEF Clerk
      <3> QED BY <1>3, <3>2, <3>3
    <2>4. CASE SelectItems(c)
      <3> DEFINE local == [clerk[c] EXCEPT !.pc = "deleting", !.todo = ItemsOf(clerk[c].order)]
      <3>2. clerk' = [clerk EXCEPT ![c] = local]
        BY <1>0, <2>4 DEF SelectItems
      <3>3. local.pc = "deleting" /\ local.rows = clerk[c].rows /\ local.add = clerk[c].add
        BY <1>0 DEF Clerk
      <3> QED BY <1>3, <3>2, <3>3
    <2>5. CASE DeleteItems(c)
      <3> DEFINE local == [clerk[c] EXCEPT !.pc = "inserting"]
      <3>2. clerk' = [clerk EXCEPT ![c] = local]
        BY <1>0, <2>5 DEF DeleteItems
      <3>3. local.pc = "inserting" /\ local.rows = clerk[c].rows /\ local.add = clerk[c].add
        BY <1>0 DEF Clerk
      <3> QED BY <1>3, <3>2, <3>3
    <2>6. CASE \E pc \in {"done", "refused"} : End(c, pc)
      BY <2>6, EndsWithNothing
    <2>7. \/ \E o \in Orders : RefuseClerk(c, o)
          \/ CreateOrder(c) \/ CommitUpdate(c) \/ Confirm(c) \/ Cancel(c)
          => \E pc \in {"done", "refused"} : End(c, pc)
      BY DEF RefuseClerk, CreateOrder, CommitUpdate, Confirm, Cancel
    <2> QED BY <2>1, <2>2, <2>3, <2>4, <2>5, <2>6, <2>7
  <1>5. HoldsBack(c, local)
    BY <1>3, <1>4 DEF HoldsBack
  <1>6. ReadsTheRow(c, local)
    BY <1>4 DEF ReadsTheRow
  <1> QED BY <1>1, <1>4, <1>5, <1>6, KardexQuiet

\* The units received for an order are an integer.
LEMMA PurchasedInt ==
    ASSUME NEW rows \in Seq(Movement), NEW o
    PROVE  Purchased(rows, o) \in Int /\ IsFiniteSet(PurchaseRows(rows, o))
  <1> DEFINE f == [i \in DOMAIN rows |-> rows[i].quantity]
  <1>1. IsFiniteSet(1..Len(rows)) /\ DOMAIN rows = 1..Len(rows)
    BY FS_Interval
  <1>2. IsFiniteSet(PurchaseRows(rows, o)) /\ PurchaseRows(rows, o) \subseteq DOMAIN rows
    BY <1>1, FS_Subset DEF PurchaseRows
  <1>3. \A i \in DOMAIN rows : f[i] \in Int
    <2>1. \A i \in DOMAIN rows : rows[i] \in Movement
      OBVIOUS
    <2> QED BY <2>1 DEF Movement
  <1> HIDE DEF f
  <1>4. SumFunctionOnSet(f, PurchaseRows(rows, o)) \in Int
    BY <1>2, <1>3, SumInt
  <1> QED BY <1>2, <1>4 DEF Purchased, f

\* One more movement adds its units to those received for its order, if it is a purchase.
LEMMA PurchasedAppend ==
    ASSUME NEW rows \in Seq(Movement), NEW m \in Movement, NEW o
    PROVE  Purchased(Append(rows, m), o) =
              Purchased(rows, o) + IF m.type = "PURCHASE" /\ m.source = o THEN m.quantity ELSE 0
  <1> DEFINE n == Len(rows)
             more == Append(rows, m)
             f == [i \in DOMAIN rows |-> rows[i].quantity]
             g == [i \in DOMAIN more |-> more[i].quantity]
             s == PurchaseRows(rows, o)
  <1>1. n \in Nat /\ DOMAIN rows = 1..n /\ DOMAIN more = 1..(n + 1)
    OBVIOUS
  <1>2. 1..(n + 1) = (1..n) \cup {n + 1} /\ n + 1 \notin 1..n
    BY <1>1
  <1>3. \A i \in 1..n : more[i] = rows[i] /\ rows[i] \in Movement
    BY <1>1
  <1>4. more[n + 1] = m
    OBVIOUS
  <1>5. (\A i \in 1..n : f[i] = g[i]) /\ g[n + 1] = m.quantity
    BY <1>1, <1>2, <1>3, <1>4
  <1>6. \A i \in (1..n) \cup {n + 1} : g[i] \in Int
    BY <1>1, <1>2, <1>3, <1>4 DEF Movement
  <1>7. s \subseteq 1..n /\ IsFiniteSet(s) /\ n + 1 \notin s
    BY <1>1, <1>2, PurchasedInt DEF PurchaseRows
  <1>8. SumFunctionOnSet(f, s) = Purchased(rows, o) /\ Purchased(rows, o) \in Int
    BY PurchasedInt DEF Purchased
  <1>9. CASE m.type = "PURCHASE" /\ m.source = o
    <2>1. PurchaseRows(more, o) = s \cup {n + 1}
      BY <1>1, <1>2, <1>3, <1>4, <1>9 DEF PurchaseRows
    <2>a. \A x \in s \cup {n + 1} : g[x] \in Int
      BY <1>6, <1>7
    <2>2. SumFunctionOnSet(g, s \cup {n + 1}) = SumFunctionOnSet(g, s) + g[n + 1]
      <3> DEFINE last == n + 1
      <3>1. IsFiniteSet(s) /\ last \notin s /\ \A x \in s \cup {last} : g[x] \in Int
        BY <1>7, <2>a
      <3> HIDE DEF g, s, last
      <3>2. SumFunctionOnSet(g, s \cup {last}) = SumFunctionOnSet(g, s) + g[last]
        BY <3>1, SumAdd
      <3> QED BY <3>2 DEF last
    <2> HIDE DEF f, g, more, n, s
    <2>3. SumFunctionOnSet(f, s) = SumFunctionOnSet(g, s)
      BY <1>5, <1>7, SumSame
    <2>4. Purchased(more, o) = SumFunctionOnSet(g, s) + g[n + 1]
      BY <2>1, <2>2 DEF Purchased, g
    <2> QED BY <1>5, <1>8, <1>9, <2>3, <2>4 DEF more
  <1>10. CASE ~(m.type = "PURCHASE" /\ m.source = o)
    <2>1. PurchaseRows(more, o) = s
      BY <1>1, <1>2, <1>3, <1>4, <1>10 DEF PurchaseRows
    <2> HIDE DEF f, g, more, n, s
    <2>2. SumFunctionOnSet(f, s) = SumFunctionOnSet(g, s)
      BY <1>5, <1>7, SumSame
    <2>3. Purchased(more, o) = SumFunctionOnSet(g, s)
      BY <2>1 DEF Purchased, g
    <2> QED BY <1>8, <1>10, <2>2, <2>3 DEF more
  <1> QED BY <1>9, <1>10

\* A movement appended to what a receipt holds back is appended to what the kardex will be.
LEMMA AppendAhead ==
    ASSUME NEW rows \in Seq(Movement), NEW more \in Seq(Movement), NEW m \in Movement
    PROVE  rows \o Append(more, m) = Append(rows \o more, m)
  <1>1. /\ Append(more, m) = more \o <<m>> /\ <<m>> \in Seq(Movement)
        /\ rows \o more \in Seq(Movement)
    BY AppendIsConcat, ConcatProperties
  <1>2. Append(rows \o more, m) = (rows \o more) \o <<m>>
    BY <1>1, AppendIsConcat
  <1> QED BY <1>1, <1>2, ConcatAssociative

\* What a request holds back it still holds back when neither it nor its rows change.
LEMMA StillHeldBack ==
    ASSUME NEW d \in Clerks, HoldsBack(d, clerk[d]), clerk'[d] = clerk[d],
           \A q \in Products : lock'[q] = d <=> lock[q] = d,
           \A q \in Products : lock[q] = d => kardex'[q] = kardex[q] /\ product'[q] = product[q]
    PROVE  HoldsBack(d, clerk[d])'
  <1>1. ASSUME NEW q \in Products
        PROVE  IF lock'[q] = d
               THEN /\ clerk'[d].pc \in ReceivingStates /\ clerk'[d].rows[q] # <<>>
                    /\ MovedUnits(Ahead(clerk[d], q)') = StockAhead(clerk[d], q)'
                    /\ Chains(Ahead(clerk[d], q)', StockAhead(clerk[d], q)')
                    /\ \A o \in Orders : Purchased(Ahead(clerk[d], q)', o) = PurchasedAhead(clerk[d], q, o)'
                    /\ TracksStock(product'[q])
               ELSE clerk'[d].rows[q] = <<>> /\ clerk'[d].add[q] = 0
    <2>1. CASE lock[q] = d
      <3>1. /\ Ahead(clerk[d], q)' = Ahead(clerk[d], q)
            /\ StockAhead(clerk[d], q)' = StockAhead(clerk[d], q)
        BY <2>1 DEF Ahead, StockAhead
      <3>2. \A o \in Orders : PurchasedAhead(clerk[d], q, o)' = PurchasedAhead(clerk[d], q, o)
        BY <2>1 DEF PurchasedAhead, Purchased, PurchaseRows
      <3> QED BY <2>1, <3>1, <3>2 DEF HoldsBack
    <2>2. CASE lock[q] # d
      BY <2>2 DEF HoldsBack
    <2> QED BY <2>1, <2>2
  <1> QED BY <1>1 DEF HoldsBack, MovedUnits, Chains, ReceivingStates, Purchased, PurchaseRows, TracksStock

\* The guarded increment: the movement starts at the stock the row has when it is
\* written, because the version says that the row is still the one that was read.
LEMMA AddStockKardex ==
    ASSUME OrdersTypeInv, OrdersKardexInv, NEW c \in Clerks, AddStock(c)
    PROVE  OrdersKardexInv'
  <1> DEFINE i == clerk[c].current
             p == ProductOf(i)
             n == clerk[c].now[i]
             s == clerk[c].seen.stock
             m == MovementRow("PURCHASE", s, s + n, clerk[c].order)
             add == [clerk[c].add EXCEPT ![p] = clerk[c].add[p] + n]
             rows == [clerk[c].rows EXCEPT ![p] = Append(clerk[c].rows[p], m)]
             local == [clerk[c] EXCEPT !.pc = "counting", !.add = add, !.rows = rows]
  <1>1. /\ clerk[c] \in Clerk /\ clerk \in [Clerks -> Clerk]
        /\ lock \in [Products -> Requests \cup {None}]
        /\ \A q \in Products : kardex[q] \in Seq(Movement) /\ product[q] \in ProductRow
    BY DEF OrdersTypeInv, OrdersTypeOK, InventoryTypeOK
  <1>2. i \in ItemId /\ p \in Products
    BY ItemParts DEF OrdersTypeInv, ClerksNameItems, NamesItem, AddStock
  <1>3. n \in Nat /\ s \in Int /\ clerk[c].order \in Documents \cup {None}
    BY <1>1, <1>2, PurchaseOrdersAssumption DEF Clerk, ProductRow
  <1>4. m \in Movement /\ m.quantity = n /\ m.previousStock = s /\ m.newStock = s + n
          /\ m.type = "PURCHASE" /\ m.source = clerk[c].order
    <2> HIDE DEF n, s
    <2> QED BY <1>3, MovementRowType DEF MovementType, MovementRow
  <1>5. clerk' = [clerk EXCEPT ![c] = local]
    BY <1>1 DEF AddStock, Clerk
  <1>6. /\ clerk[c].pc = "writing" /\ lock[p] \in {None, c} /\ lock' = [lock EXCEPT ![p] = c]
        /\ product' = product /\ kardex' = kardex
        /\ lock[p] = c \/ product[p].version = clerk[c].seen.version
    BY DEF AddStock, SameVersion
  <1>7. s = StockAhead(clerk[c], p) /\ TracksStock(product[p])
    BY <1>6 DEF OrdersKardexInv, ReadsTheRow
  <1>8. c # None
    BY PurchaseOrdersAssumption, InventoryAssumption
  <1>9. \A q \in Products : clerk[c].rows[q] \in Seq(Movement) /\ clerk[c].add[q] \in Nat
    BY <1>1 DEF Clerk
  <1> HIDE DEF i, n, s, m
  <1>10. /\ \A q \in Products \ {p} : rows[q] = clerk[c].rows[q] /\ add[q] = clerk[c].add[q]
         /\ rows[p] = Append(clerk[c].rows[p], m) /\ add[p] = clerk[c].add[p] + n
    BY <1>1, <1>2 DEF Clerk
  <1> HIDE DEF p, add, rows
  <1>11. local.pc = "counting" /\ local.rows = rows /\ local.add = add /\ local.order = clerk[c].order
    BY <1>1 DEF Clerk
  <1> HIDE DEF local
  <1>12. /\ MovedUnits(Ahead(clerk[c], p)) = s /\ Chains(Ahead(clerk[c], p), s)
         /\ \A o \in Orders : Purchased(Ahead(clerk[c], p), o) = PurchasedAhead(clerk[c], p, o)
         /\ Ahead(clerk[c], p) \in Seq(Movement)
    <2>1. Ahead(clerk[c], p) \in Seq(Movement)
      BY <1>1, <1>2, <1>9, ConcatProperties DEF Ahead
    <2>2. CASE lock[p] = c
      BY <1>2, <1>7, <2>1, <2>2 DEF OrdersKardexInv, HoldsBack
    <2>3. CASE lock[p] # c
      <3>1. clerk[c].rows[p] = <<>> /\ clerk[c].add[p] = 0 /\ Accounted(p)
        BY <1>2, <2>3 DEF OrdersKardexInv, HoldsBack
      <3>2. Ahead(clerk[c], p) = kardex[p]
        BY <1>1, <1>2, <3>1, ConcatEmptySeq DEF Ahead
      <3>3. s = product[p].stock
        BY <1>1, <1>2, <1>7, <3>1 DEF StockAhead, ProductRow
      <3>4. \A o \in Orders : PurchasedAhead(clerk[c], p, o) = Purchased(kardex[p], o)
        BY <1>1, <1>2, <3>1, PurchasedInt DEF PurchasedAhead
      <3> QED BY <2>1, <3>1, <3>2, <3>3, <3>4 DEF Accounted
    <2> QED BY <2>2, <2>3
  <1>13. /\ Ahead(local, p) = Append(Ahead(clerk[c], p), m)
         /\ StockAhead(local, p) = s + n /\ rows[p] # <<>>
    <2>1. Ahead(local, p) = Append(Ahead(clerk[c], p), m)
      BY <1>1, <1>2, <1>4, <1>9, <1>10, <1>11, AppendAhead DEF Ahead
    <2>2. StockAhead(local, p) = s + n
      BY <1>1, <1>2, <1>3, <1>7, <1>9, <1>10, <1>11 DEF StockAhead, ProductRow
    <2>3. rows[p] # <<>>
      BY <1>2, <1>4, <1>9, <1>10
    <2> QED BY <2>1, <2>2, <2>3
  <1>14. /\ MovedUnits(Ahead(local, p)) = s + n /\ Chains(Ahead(local, p), s + n)
         /\ \A o \in Orders : Purchased(Ahead(local, p), o) = PurchasedAhead(local, p, o)
    <2>1. MovedUnits(Ahead(local, p)) = s + n
      BY <1>4, <1>12, <1>13, MovedUnitsAppend
    <2>2. Chains(Ahead(local, p), s + n)
      BY <1>4, <1>12, <1>13, ChainsAppend
    <2>3. ASSUME NEW o \in Orders
          PROVE  Purchased(Ahead(local, p), o) = PurchasedAhead(local, p, o)
      <3>1. Purchased(kardex[p], o) \in Int /\ clerk[c].add[p] \in Nat
        BY <1>1, <1>2, <1>9, PurchasedInt
      <3>2. Purchased(Ahead(clerk[c], p), o) = PurchasedAhead(clerk[c], p, o)
        BY <1>12
      <3>3. Purchased(Ahead(local, p), o) =
               PurchasedAhead(clerk[c], p, o) + IF clerk[c].order = o THEN n ELSE 0
        BY <1>4, <1>12, <1>13, <3>2, PurchasedAppend
      <3> QED BY <1>3, <1>10, <1>11, <3>1, <3>3 DEF PurchasedAhead
    <2> QED BY <2>1, <2>2, <2>3
  <1>15. /\ \A q \in Products : lock'[q] = IF q = p THEN c ELSE lock[q]
         /\ \A d \in Clerks : clerk'[d] = IF d = c THEN local ELSE clerk[d]
    BY <1>1, <1>2, <1>5, <1>6
  <1>16. ASSUME NEW q \in Products PROVE Accounted(q)'
    BY <1>6 DEF OrdersKardexInv, Accounted, MovedUnits, Chains
  <1>17. HoldsBack(c, clerk[c])' /\ ReadsTheRow(c, clerk[c])'
    <2>1. ReadsTheRow(c, clerk[c])'
      BY <1>11, <1>15 DEF ReadsTheRow
    <2>2. ASSUME NEW q \in Products
          PROVE  IF lock'[q] = c
                 THEN /\ local.pc \in ReceivingStates /\ local.rows[q] # <<>>
                      /\ MovedUnits(Ahead(local, q)) = StockAhead(local, q)
                      /\ Chains(Ahead(local, q), StockAhead(local, q))
                      /\ \A o \in Orders : Purchased(Ahead(local, q), o) = PurchasedAhead(local, q, o)
                      /\ TracksStock(product[q])
                 ELSE local.rows[q] = <<>> /\ local.add[q] = 0
      <3>1. CASE q = p
        BY <1>2, <1>7, <1>11, <1>13, <1>14, <1>15, <3>1 DEF ReceivingStates
      <3>2. CASE q # p
        BY <1>10, <1>11, <1>15, <3>2
        DEF OrdersKardexInv, HoldsBack, Ahead, StockAhead, PurchasedAhead, ReceivingStates
      <3> QED BY <3>1, <3>2
    <2>3. \A q \in Products :
             /\ Ahead(local, q) = Ahead(clerk[c], q)' /\ StockAhead(local, q) = StockAhead(clerk[c], q)'
             /\ \A o \in Orders : PurchasedAhead(local, q, o) = PurchasedAhead(clerk[c], q, o)'
             /\ TracksStock(product[q]) <=> TracksStock(product'[q])
      BY <1>6, <1>15 DEF Ahead, StockAhead, PurchasedAhead, Purchased, PurchaseRows
    <2>4. clerk'[c] = local
      BY <1>15
    <2>5. HoldsBack(c, clerk[c])'
      BY <2>2, <2>3, <2>4 DEF HoldsBack, MovedUnits, Chains, Purchased, PurchaseRows, TracksStock
    <2> QED BY <2>1, <2>5
  <1>18. ASSUME NEW d \in Clerks, d # c
         PROVE  HoldsBack(d, clerk[d])' /\ ReadsTheRow(d, clerk[d])'
    <2>1. clerk'[d] = clerk[d]
      BY <1>15, <1>18
    <2>2. \A q \in Products : lock'[q] = d <=> lock[q] = d
      BY <1>6, <1>15, <1>18, PurchaseOrdersAssumption, InventoryAssumption
    <2>3. HoldsBack(d, clerk[d])'
      BY <1>6, <2>1, <2>2, StillHeldBack DEF OrdersKardexInv
    <2>4. ReadsTheRow(d, clerk[d])'
      <3>1. clerk[d].pc = "writing" => ProductOf(clerk[d].current) \in Products
        BY ItemParts DEF OrdersTypeInv, ClerksNameItems, NamesItem
      <3> QED BY <1>6, <2>1, <2>2, <3>1 DEF OrdersKardexInv, ReadsTheRow, StockAhead, TracksStock
    <2> QED BY <2>3, <2>4
  <1> QED BY <1>16, <1>17, <1>18 DEF OrdersKardexInv

\* The commit installs what was held back: the kardex and the stock become what they
\* were going to be, and who read the old row finds another version.
LEMMA CommitKardex ==
    ASSUME OrdersTypeInv, OrdersKardexInv, NEW c \in Clerks, CommitReceive(c)
    PROVE  OrdersKardexInv'
  <1>1. /\ clerk[c] \in Clerk /\ clerk \in [Clerks -> Clerk]
        /\ \A q \in Products : /\ kardex[q] \in Seq(Movement) /\ product[q] \in ProductRow
                               /\ clerk[c].rows[q] \in Seq(Movement) /\ clerk[c].add[q] \in Nat
    BY DEF OrdersTypeInv, OrdersTypeOK, InventoryTypeOK, Clerk
  <1>2. /\ lock' = Released(c)
        /\ \A q \in Products : kardex'[q] = Ahead(clerk[c], q)
        /\ \A q \in Products : lock[q] # c => product'[q] = product[q]
    BY DEF CommitReceive, Ahead
  <1>3. PICK local \in Clerk :
              /\ clerk' = [clerk EXCEPT ![c] = local] /\ local.pc = "done"
              /\ \A p \in Products : local.rows[p] = <<>> /\ local.add[p] = 0
    BY EndsWithNothing DEF CommitReceive
  <1>4. ASSUME NEW q \in Products, lock[q] = c
        PROVE  /\ product'[q].stock = StockAhead(clerk[c], q) /\ product'[q].version > product[q].version
               /\ TracksStock(product'[q]) <=> TracksStock(product[q])
    <2> DEFINE n == StockReceived(c, q)
               v == product[q].version + Len(clerk[c].rows[q])
    <2>1. product'[q] = [product[q] EXCEPT !.stock = n, !.version = v]
      BY <1>1, <1>4 DEF CommitReceive, ProductRow
    <2>2. clerk[c].rows[q] # <<>>
      BY <1>4 DEF OrdersKardexInv, HoldsBack
    <2>3. Len(clerk[c].rows[q]) \in Nat /\ Len(clerk[c].rows[q]) > 0 /\ product[q].version \in Nat
      BY <1>1, <2>2, EmptySeq DEF ProductRow
    <2>4. v > product[q].version
      BY <2>3
    <2>5. n = StockAhead(clerk[c], q)
      BY DEF StockReceived, StockAhead
    <2> HIDE DEF n, v
    <2>6. /\ product'[q].stock = n /\ product'[q].version = v
          /\ TracksStock(product'[q]) <=> TracksStock(product[q])
      BY <1>1, <2>1 DEF ProductRow, TracksStock
    <2> QED BY <2>4, <2>5, <2>6
  <1>5. ASSUME NEW q \in Products, lock[q] # c
        PROVE  product'[q] = product[q] /\ kardex'[q] = kardex[q]
    <2>1. clerk[c].rows[q] = <<>>
      BY <1>5 DEF OrdersKardexInv, HoldsBack
    <2>2. kardex'[q] = kardex[q]
      BY <1>1, <1>2, <2>1, ConcatEmptySeq DEF Ahead
    <2> QED BY <1>2, <1>5, <2>2
  <1>6. ASSUME NEW q \in Products PROVE Accounted(q)'
    <2>1. CASE lock[q] = c
      <3>1. /\ MovedUnits(Ahead(clerk[c], q)) = StockAhead(clerk[c], q)
            /\ Chains(Ahead(clerk[c], q), StockAhead(clerk[c], q))
        BY <2>1 DEF OrdersKardexInv, HoldsBack
      <3>2. kardex'[q] = Ahead(clerk[c], q) /\ product'[q].stock = StockAhead(clerk[c], q)
        BY <1>2, <1>4, <2>1
      <3>3. MovedUnits(kardex'[q]) = product'[q].stock /\ Chains(kardex'[q], product'[q].stock)
        BY <3>1, <3>2
      <3> QED BY <3>3 DEF Accounted, MovedUnits, Chains
    <2>2. CASE lock[q] # c
      BY <1>5, <2>2 DEF OrdersKardexInv, Accounted, MovedUnits, Chains
    <2> QED BY <2>1, <2>2
  <1>7. \A q \in Products : lock'[q] = IF lock[q] = c THEN None ELSE lock[q]
    BY <1>2 DEF Released
  <1>8. None \notin Clerks
    BY PurchaseOrdersAssumption, InventoryAssumption
  <1>9. HoldsBack(c, clerk[c])' /\ ReadsTheRow(c, clerk[c])'
    <2>1. clerk'[c] = local
      BY <1>1, <1>3
    <2> QED BY <1>3, <1>7, <1>8, <2>1 DEF HoldsBack, ReadsTheRow
  <1>10. ASSUME NEW d \in Clerks, d # c
         PROVE  HoldsBack(d, clerk[d])' /\ ReadsTheRow(d, clerk[d])'
    <2>1. clerk'[d] = clerk[d]
      BY <1>1, <1>3, <1>10
    <2>2. \A q \in Products : lock'[q] = d <=> lock[q] = d
      BY <1>7, <1>8, <1>10
    <2>3. HoldsBack(d, clerk[d])'
      BY <1>5, <1>10, <2>1, <2>2, StillHeldBack DEF OrdersKardexInv
    <2>4. ReadsTheRow(d, clerk[d])'
      <3> DEFINE q == ProductOf(clerk[d].current)
      <3> SUFFICES ASSUME clerk[d].pc = "writing"
                   PROVE  /\ TracksStock(product'[q])
                          /\ clerk[d].seen.version <= product'[q].version
                          /\ lock'[q] = d => clerk[d].seen.version = product'[q].version
                          /\ clerk[d].seen.version = product'[q].version
                                => clerk[d].seen.stock = product'[q].stock + clerk[d].add[q]
        BY <2>1 DEF ReadsTheRow, StockAhead, TracksStock
      <3>1. q \in Products
        BY ItemParts DEF OrdersTypeInv, ClerksNameItems, NamesItem
      <3>2. /\ TracksStock(product[q]) /\ clerk[d].seen.version <= product[q].version
            /\ lock[q] = d => clerk[d].seen.version = product[q].version
            /\ clerk[d].seen.version = product[q].version
                                => clerk[d].seen.stock = product[q].stock + clerk[d].add[q]
        BY DEF OrdersKardexInv, ReadsTheRow, StockAhead, TracksStock
      <3>3. clerk[d].seen.version \in Nat /\ product[q].version \in Nat /\ product'[q].version \in Nat
        <4>1. product' \in [Products -> ProductRow]
          BY ReceiveType DEF OrdersTypeInv, InventoryTypeOK
        <4>2. clerk[d].seen \in ProductRow
          BY <1>1 DEF Clerk
        <4> QED BY <1>1, <3>1, <4>1, <4>2 DEF ProductRow
      <3> HIDE DEF q
      <3>4. CASE lock[q] = c
        <4>1. product'[q].version > product[q].version /\ TracksStock(product'[q])
          BY <1>4, <3>1, <3>2, <3>4
        <4> QED BY <1>10, <2>2, <3>1, <3>2, <3>3, <3>4, <4>1
      <3>5. CASE lock[q] # c
        BY <1>5, <2>2, <3>1, <3>2, <3>5
      <3> QED BY <3>4, <3>5
    <2> QED BY <2>3, <2>4
  <1> QED BY <1>6, <1>9, <1>10 DEF OrdersKardexInv

\* A request that fails forgets what it held back.
LEMMA RollbackKardex ==
    ASSUME OrdersTypeInv, OrdersKardexInv, NEW c \in Clerks, RefuseWrite(c) \/ AbortClerk(c)
    PROVE  OrdersKardexInv'
  <1>1. clerk \in [Clerks -> Clerk]
    BY DEF OrdersTypeInv, OrdersTypeOK
  <1>2. lock' = Released(c) /\ UNCHANGED <<product, kardex>> /\ End(c, "refused")
    BY DEF RefuseWrite, AbortClerk
  <1>3. PICK local \in Clerk :
              /\ clerk' = [clerk EXCEPT ![c] = local] /\ local.pc = "refused"
              /\ \A p \in Products : local.rows[p] = <<>> /\ local.add[p] = 0
    BY <1>2, EndsWithNothing
  <1>4. \A q \in Products : lock'[q] = IF lock[q] = c THEN None ELSE lock[q]
    BY <1>2 DEF Released
  <1>5. None \notin Clerks
    BY PurchaseOrdersAssumption, InventoryAssumption
  <1>6. HoldsBack(c, clerk[c])' /\ ReadsTheRow(c, clerk[c])'
    <2>1. clerk'[c] = local
      BY <1>1, <1>3
    <2> QED BY <1>3, <1>4, <1>5, <2>1 DEF HoldsBack, ReadsTheRow
  <1>7. ASSUME NEW d \in Clerks, d # c
        PROVE  HoldsBack(d, clerk[d])' /\ ReadsTheRow(d, clerk[d])'
    <2>1. clerk'[d] = clerk[d]
      BY <1>1, <1>3, <1>7
    <2>2. \A q \in Products : lock'[q] = d <=> lock[q] = d
      BY <1>4, <1>5, <1>7
    <2>3. HoldsBack(d, clerk[d])'
      BY <1>2, <2>1, <2>2, StillHeldBack DEF OrdersKardexInv
    <2>4. ReadsTheRow(d, clerk[d])'
      <3>1. clerk[d].pc = "writing" => ProductOf(clerk[d].current) \in Products
        BY ItemParts DEF OrdersTypeInv, ClerksNameItems, NamesItem
      <3> QED BY <1>2, <2>1, <2>2, <3>1 DEF OrdersKardexInv, ReadsTheRow, StockAhead, TracksStock
    <2> QED BY <2>3, <2>4
  <1>8. ASSUME NEW q \in Products PROVE Accounted(q)'
    BY <1>2 DEF OrdersKardexInv, Accounted, MovedUnits, Chains
  <1> QED BY <1>6, <1>7, <1>8 DEF OrdersKardexInv

\* The catalogue starts accounted for, and no receipt is under way.
LEMMA OrdersKardexInit == OrdersAloneInit => OrdersTypeInv /\ OrdersKardexInv
  <1> SUFFICES ASSUME InventoryInit, OrdersInit PROVE OrdersKardexInv
    BY OrdersInitType DEF OrdersAloneInit
  <1>1. \A p \in Products : Accounted(p)
    BY InventoryInitAccounted
  <1>2. ASSUME NEW c \in Clerks
        PROVE  HoldsBack(c, clerk[c]) /\ ReadsTheRow(c, clerk[c])
    <2>1. clerk[c] = IdleClerk /\ IdleClerk.pc = "idle"
      BY <1>2, IdleClerkType DEF OrdersInit
    <2>2. \A p \in Products : IdleClerk.rows[p] = <<>> /\ IdleClerk.add[p] = 0
      BY DEF IdleClerk, NoLines
    <2>3. \A p \in Products : lock[p] # c
      BY PurchaseOrdersAssumption, InventoryAssumption DEF InventoryInit
    <2> QED BY <2>1, <2>2, <2>3 DEF HoldsBack, ReadsTheRow
  <1> QED BY <1>1, <1>2 DEF OrdersKardexInv

\* Every step keeps the kardex accounted for.
LEMMA OrdersKardexStep ==
    OrdersTypeInv /\ OrdersKardexInv /\ [OrdersNext]_OrdersVars => OrdersTypeInv' /\ OrdersKardexInv'
  <1> SUFFICES ASSUME OrdersTypeInv, OrdersKardexInv, [OrdersNext]_OrdersVars
               PROVE  OrdersTypeInv' /\ OrdersKardexInv'
    OBVIOUS
  <1>1. CASE OrdersNext
    <2>1. OrdersTypeInv'
      BY <1>1, OrdersStepType
    <2>2. OrdersKardexInv'
      BY <1>1, ReceiptQuiet, ReadProductKardex, OtherQuiet, AddStockKardex, CommitKardex,
         RollbackKardex
      DEF OrdersNext, ClerkStep
    <2> QED BY <2>1, <2>2
  <1>2. CASE UNCHANGED OrdersVars
    <2>1. UNCHANGED inventoryVars /\ UNCHANGED ordersVars
      BY <1>2 DEF OrdersVars
    <2>2. OrdersTypeInv'
      BY <2>1, InventoryStutter, OrdersStutterType DEF OrdersTypeInv, OrdersTypeOK
    <2>3. \A c \in Clerks : HoldsBack(c, clerk[c])' /\ ReadsTheRow(c, clerk[c])'
      BY <2>1, StillHeldBack DEF inventoryVars, ordersVars, OrdersKardexInv, ReadsTheRow, StockAhead
    <2>4. \A q \in Products : Accounted(q)'
      BY <2>1 DEF inventoryVars, OrdersKardexInv, Accounted, MovedUnits, Chains
    <2> QED BY <2>2, <2>3, <2>4 DEF OrdersKardexInv
  <1> QED BY <1>1, <1>2

\* However many receipts, edits and cancellations of orders interleave, each kardex row
\* starts where the previous one ended and the movements add up to the stock: the
\* version guard of the receipt is enough.
THEOREM OrdersKardexExplains == OrdersSpec => [](KardexExplainsStock /\ KardexChained)
  <1> DEFINE Inv == OrdersTypeInv /\ OrdersKardexInv
  <1>1. OrdersAloneInit => Inv
    BY OrdersKardexInit
  <1>2. Inv /\ [OrdersNext]_OrdersVars => Inv'
    BY OrdersKardexStep
  <1>3. Inv => KardexExplainsStock /\ KardexChained
    BY KardexIsItsRows DEF OrdersKardexInv, Accounted, KardexExplainsStock
  <1> QED BY <1>1, <1>2, <1>3, PTL DEF OrdersSpec

-----------------------------------------------------------------------------
(* The items of the orders *)

\* No two updates, and no update and another request, under way at the same time: two
\* updates of a draft leave the items of both, and one that races the order's
\* confirmation replaces items that were received.
NoRacingUpdates == "update" \in Kinds => MaxServed = 1

UpdatingStates == {"replacing", "deleting", "inserting"}

UpdatesAlone ==
    /\ IsFiniteSet(Served)
    /\ "update" \in Kinds => \A c, d \in Served : c = d
    /\ \A c \in Clerks : clerk[c].pc \in UpdatingStates => "update" \in Kinds

\* An order is created by one request, and has no other while it is.
CreatesAlone ==
    \A c, d \in Clerks :
        clerk[c].pc = "creating" /\ clerk[d].pc = "creating" /\ clerk[c].order = clerk[d].order
            => c = d

\* The items a request inserts are new, and so are those of an order that is created.
FreshItems ==
    /\ \A c \in Clerks, p \in Products : item[<<c, p>>].order # None => clerk[c].pc = "done"
    /\ \A o \in Orders, p \in Products : item[<<o, p>>].order \in {o, None}

\* An order has one item at most for each product, which the total, the kardex and the
\* status agree with.
OrderSound(o) ==
    /\ \A i, j \in ItemsOf(o) : ProductOf(i) = ProductOf(j) => i = j
    /\ \A i \in ItemsOf(o) :
          /\ order[o].total[ProductOf(i)] = item[i].qtyOrdered
          /\ Purchased(kardex[ProductOf(i)], o) =
                IF TracksStock(product[ProductOf(i)]) THEN item[i].qtyReceived ELSE 0
          /\ order[o].status = "DRAFT" => item[i].qtyReceived = 0
          /\ order[o].status = "RECEIVED" => item[i].qtyReceived >= item[i].qtyOrdered
    /\ \A p \in Products : (\A i \in ItemsOf(o) : ProductOf(i) # p) =>
          order[o].total[p] = 0 /\ Purchased(kardex[p], o) = 0
    /\ order[o].status = "none" => ItemsOf(o) = {}

\* The items a request holds.
Held(c) == {i \in ItemId : itemLock[i] = c}

\* The items whose units a receipt has already added to the stock, if they move any.
Added(local, held) == held \cup IF local.pc = "counting" THEN {local.current} ELSE {}

\* A receipt has each of its items ahead of it, under way or behind it, and its stock
\* increments are the units of those whose product it wrote; one that closes the order
\* saw all its items complete.
ReceiptSound(local, held) ==
    LET o == local.order IN
    /\ order[o].status # "DRAFT"
    /\ local.todo \subseteq ItemsOf(o) \ held
    /\ local.pc \in {"checked", "writing", "counting"}
          => local.current \in ItemsOf(o) \ (held \cup local.todo)
    /\ \A i \in ItemsOf(o) :
          local.add[ProductOf(i)] =
             IF TracksStock(product[ProductOf(i)]) /\ i \in Added(local, held) THEN local.now[i] ELSE 0
    /\ \A p \in Products : (\A i \in ItemsOf(o) : ProductOf(i) # p) => local.add[p] = 0
    /\ local.pc = "closing" /\ local.allReceived =>
          \A i \in ItemsOf(o) :
             item[i].qtyReceived + (IF i \in held THEN local.now[i] ELSE 0) >= item[i].qtyOrdered

\* What a request that holds these items knows of its order.
ClerkSound(local, held) ==
    LET o == local.order IN
    /\ local.pc \notin {"idle", "done", "refused"}
          => o \in Orders /\ (order[o].status = "none" <=> local.pc = "creating")
    /\ local.pc \in UpdatingStates => order[o].status = "DRAFT"
    /\ local.pc = "deleting" => local.todo = ItemsOf(o)
    /\ local.pc = "inserting" => held = ItemsOf(o)
    /\ held # {} => local.pc \in ReceivingStates \cup {"inserting"} /\ held \subseteq ItemsOf(o)
    /\ local.pc \in ReceivingStates => ReceiptSound(local, held)

OrdersSoundInv ==
    /\ UpdatesAlone /\ CreatesAlone /\ FreshItems
    /\ \A o \in Orders : OrderSound(o)
    /\ \A c \in Clerks : ClerkSound(clerk[c], Held(c))

\* Requests that open do so while few others are served, and the others only go on.
LEMMA UpdatesAloneStep ==
    ASSUME NoRacingUpdates, OrdersTypeInv, UpdatesAlone, NEW c \in Clerks, NEW local,
           clerk' = [clerk EXCEPT ![c] = local],
           \/ c \in Served
           \/ local.pc \in {"idle", "done", "refused"}
           \/ \E kind \in Kinds : Ready(c, kind),
           local.pc \in UpdatingStates => "update" \in Kinds
    PROVE  UpdatesAlone'
  <1>1. clerk \in [Clerks -> Clerk]
    BY DEF OrdersTypeInv, OrdersTypeOK
  <1>2. \A d \in Clerks : clerk'[d] = IF d = c THEN local ELSE clerk[d]
    BY <1>1
  <1>3. Served' \subseteq Served \cup {c}
    BY <1>2 DEF Served
  <1>4. IsFiniteSet(Served')
    <2>1. IsFiniteSet(Served \cup {c})
      BY FS_AddElement DEF UpdatesAlone
    <2> QED BY <1>3, <2>1, FS_Subset
  <1>5. \A d \in Clerks : clerk'[d].pc \in UpdatingStates => "update" \in Kinds
    BY <1>2 DEF UpdatesAlone
  <1>6. ASSUME "update" \in Kinds, NEW d \in Served', NEW e \in Served'
        PROVE  d = e
    <2>1. CASE c \in Served \/ local.pc \in {"idle", "done", "refused"}
      <3>1. Served' \subseteq Served
        BY <1>2, <2>1 DEF Served
      <3> QED BY <1>6, <3>1 DEF UpdatesAlone
    <2>2. CASE \E kind \in Kinds : Ready(c, kind)
      <3>1. Cardinality(Served) < 1 /\ IsFiniteSet(Served)
        BY <1>6, <2>2 DEF Ready, NoRacingUpdates, UpdatesAlone
      <3>2. Cardinality(Served) = 0
        BY <3>1, FS_CardinalityType
      <3>3. Served = {}
        BY <3>1, <3>2, FS_EmptySet
      <3> QED BY <1>3, <3>3
    <2> QED BY <2>1, <2>2
  <1> QED BY <1>4, <1>5, <1>6 DEF UpdatesAlone

\* What a request knows of its order stays true when others leave its order's items,
\* but for more units received, and do not take the order back to a draft.
LEMMA StillSound ==
    ASSUME OrdersTypeInv, OrdersTypeInv', NEW d \in Clerks, ClerkSound(clerk[d], Held(d)),
           clerk'[d] = clerk[d],
           \A i \in ItemId : itemLock'[i] = d <=> itemLock[i] = d,
           \A p \in Products : TracksStock(product'[p]) <=> TracksStock(product[p]),
           d \in Served =>
              LET o == clerk[d].order IN
              /\ order[o].status = "none" <=> order'[o].status = "none"
              /\ order[o].status # "DRAFT" => order'[o].status # "DRAFT"
              /\ clerk[d].pc \in UpdatingStates => order'[o].status = "DRAFT"
              /\ \A i \in ItemId : item'[i].order = o <=> item[i].order = o
              /\ \A i \in ItemsOf(o) : /\ item'[i].qtyOrdered = item[i].qtyOrdered
                                       /\ item'[i].qtyReceived >= item[i].qtyReceived
    PROVE  ClerkSound(clerk[d], Held(d))'
  <1> DEFINE o == clerk[d].order
  <1>1. Held(d)' = Held(d) /\ clerk'[d] = clerk[d]
    BY DEF Held
  <1>2. /\ clerk[d] \in Clerk /\ item \in [ItemId -> ItemRow] /\ item' \in [ItemId -> ItemRow]
    BY DEF OrdersTypeInv, OrdersTypeOK
  <1>3. CASE d \notin Served
    <2>1. Held(d) = {} /\ clerk[d].pc \in {"idle", "done", "refused"}
      BY <1>3 DEF Served, ClerkSound, ReceivingStates
    <2> QED BY <1>1, <2>1 DEF ClerkSound, UpdatingStates, ReceivingStates
  <1>4. CASE d \in Served
    <2>1. ItemsOf(clerk[d].order)' = ItemsOf(o)
      BY <1>4 DEF ItemsOf
    <2>2. ASSUME clerk[d].pc \in ReceivingStates
          PROVE  ReceiptSound(clerk[d], Held(d))'
      <3>1. ReceiptSound(clerk[d], Held(d))
        BY <2>2 DEF ClerkSound
      <3>2. \A i \in ItemsOf(o) : i \in ItemId /\ ProductOf(i) \in Products
        BY ItemParts DEF ItemsOf
      <3>3. \A i \in ItemId : /\ item[i].qtyReceived \in Nat /\ item'[i].qtyReceived \in Nat
                               /\ item[i].qtyOrdered \in Nat /\ clerk[d].now[i] \in Nat
        BY <1>2 DEF ItemRow, Clerk
      <3> QED BY <1>1, <1>4, <2>1, <3>1, <3>2, <3>3 DEF ReceiptSound, Added
    <2> QED BY <1>1, <1>4, <2>1, <2>2 DEF ClerkSound, UpdatingStates, ReceivingStates, Served
  <1> QED BY <1>3, <1>4

\* A step that leaves the products, the kardex, the orders and the items alone: one
\* request goes on, with other items in hand.
LEMMA ClerkGoesOn ==
    ASSUME OrdersTypeInv, OrdersTypeInv', OrdersSoundInv, UpdatesAlone',
           NEW c \in Clerks, NEW local, clerk' = [clerk EXCEPT ![c] = local],
           UNCHANGED <<product, kardex, order, item>>,
           NEW held, Held(c)' = held, ClerkSound(local, held),
           \A d \in Clerks : d # c => \A i \in ItemId : itemLock'[i] = d <=> itemLock[i] = d,
           clerk[c].pc # "done",
           local.pc = "creating" => \A d \in Served : clerk[d].order # local.order
    PROVE  OrdersSoundInv'
  <1>1. clerk \in [Clerks -> Clerk]
    BY DEF OrdersTypeInv, OrdersTypeOK
  <1>2. \A d \in Clerks : clerk'[d] = IF d = c THEN local ELSE clerk[d]
    BY <1>1
  <1>3. CreatesAlone'
    <2> SUFFICES ASSUME NEW d \in Clerks, NEW e \in Clerks, clerk'[d].pc = "creating",
                        clerk'[e].pc = "creating", clerk'[d].order = clerk'[e].order
                 PROVE  d = e
      BY DEF CreatesAlone
    <2> QED BY <1>2 DEF OrdersSoundInv, CreatesAlone, Served
  <1>4. FreshItems'
    BY <1>2 DEF OrdersSoundInv, FreshItems
  <1>5. ASSUME NEW o \in Orders PROVE OrderSound(o)'
    <2>1. OrderSound(o)
      BY DEF OrdersSoundInv
    <2>2. ItemsOf(o)' = ItemsOf(o) /\ \A p \in Products : Purchased(kardex[p], o)' = Purchased(kardex[p], o)
      BY DEF ItemsOf, Purchased, PurchaseRows
    <2> QED BY <2>1, <2>2 DEF OrderSound, TracksStock
  <1>6. ASSUME NEW d \in Clerks PROVE ClerkSound(clerk[d], Held(d))'
    <2>1. CASE d = c
      <3>1. clerk'[c] = local /\ Held(c)' = held
        BY <1>2
      <3>2. ClerkSound(clerk'[c], Held(c)')
        BY <3>1
      <3>3. ItemsOf(clerk[c].order)' = ItemsOf(clerk'[c].order)
        BY DEF ItemsOf
      <3>4. ReceiptSound(clerk'[c], Held(c)') => ReceiptSound(clerk[c], Held(c))'
        BY <3>3 DEF ReceiptSound, Added, TracksStock
      <3>5. ClerkSound(clerk[c], Held(c))'
        BY <3>2, <3>3, <3>4 DEF ClerkSound, UpdatingStates, ReceivingStates
      <3> QED BY <2>1, <3>5
    <2>2. CASE d # c
      <3>1. /\ clerk'[d] = clerk[d] /\ ClerkSound(clerk[d], Held(d))
            /\ \A i \in ItemId : itemLock'[i] = d <=> itemLock[i] = d
        BY <1>2, <2>2 DEF OrdersSoundInv
      <3>2. \A i \in ItemId : item[i] \in ItemRow
        BY DEF OrdersTypeInv, OrdersTypeOK
      <3>3. \A i \in ItemId : item'[i].qtyOrdered = item[i].qtyOrdered
                                 /\ item'[i].qtyReceived >= item[i].qtyReceived
        BY <3>2 DEF ItemRow
      <3>4. clerk[d].pc \in UpdatingStates => order[clerk[d].order].status = "DRAFT"
        BY <3>1 DEF ClerkSound
      <3> QED BY <3>1, <3>3, <3>4, StillSound DEF TracksStock, ItemsOf
    <2> QED BY <2>1, <2>2
  <1> QED BY <1>3, <1>4, <1>5, <1>6 DEF OrdersSoundInv

\* A request that opens holds no item and has added nothing.
LEMMA NothingInHand ==
    ASSUME OrdersTypeInv, OrdersKardexInv, OrdersSoundInv, NEW c \in Clerks,
           clerk[c].pc \notin ReceivingStates \cup {"inserting"}
    PROVE  Held(c) = {} /\ \A p \in Products : clerk[c].add[p] = 0
  <1>1. Held(c) = {}
    BY DEF OrdersSoundInv, ClerkSound
  <1>2. \A p \in Products : lock[p] # c /\ clerk[c].add[p] = 0
    BY DEF OrdersKardexInv, HoldsBack
  <1> QED BY <1>1, <1>2

\* Requests that open: the order is read, and its status checked.
LEMMA OpenSound ==
    ASSUME NoRacingUpdates, OrdersTypeInv, OrdersTypeInv', OrdersKardexInv, OrdersSoundInv,
           NEW c \in Clerks, NEW o \in Orders,
           OpenCreate(c, o) \/ OpenUpdate(c, o) \/ OpenConfirm(c, o) \/ OpenCancel(c, o)
    PROVE  OrdersSoundInv'
  <1>0. clerk[c] \in Clerk /\ clerk \in [Clerks -> Clerk]
    BY DEF OrdersTypeInv, OrdersTypeOK
  <1>1. PICK local : /\ clerk' = [clerk EXCEPT ![c] = local] /\ local.order = o
                     /\ local.pc \in {"creating", "replacing", "confirming", "cancelling"}
                     /\ local.pc = "creating" => /\ order[o].status = "none"
                                                 /\ \A d \in Served : clerk[d].order # o
                     /\ local.pc # "creating" => order[o].status # "none"
                     /\ local.pc = "replacing" => order[o].status = "DRAFT" /\ "update" \in Kinds
    <2>1. CASE OpenCreate(c, o)
      <3>1. PICK lines \in OrderLines :
               clerk' = [clerk EXCEPT ![c].pc = "creating", ![c].order = o, ![c].lines = lines]
        BY <2>1 DEF OpenCreate
      <3> DEFINE local == [clerk[c] EXCEPT !.pc = "creating", !.order = o, !.lines = lines]
      <3>2. clerk' = [clerk EXCEPT ![c] = local]
        BY <1>0, <3>1
      <3>3. local.pc = "creating" /\ local.order = o
        BY <1>0 DEF Clerk
      <3> HIDE DEF local
      <3> QED BY <2>1, <3>2, <3>3 DEF OpenCreate
    <2>2. CASE OpenUpdate(c, o)
      <3>1. PICK lines \in OrderLines :
               clerk' = [clerk EXCEPT ![c].pc = "replacing", ![c].order = o, ![c].lines = lines]
        BY <2>2 DEF OpenUpdate
      <3> DEFINE local == [clerk[c] EXCEPT !.pc = "replacing", !.order = o, !.lines = lines]
      <3>2. clerk' = [clerk EXCEPT ![c] = local]
        BY <1>0, <3>1
      <3>3. local.pc = "replacing" /\ local.order = o
        BY <1>0 DEF Clerk
      <3> HIDE DEF local
      <3> QED BY <2>2, <3>2, <3>3 DEF OpenUpdate, Editable, Ready
    <2>3. CASE OpenConfirm(c, o) \/ OpenCancel(c, o)
      <3>1. PICK pc \in {"confirming", "cancelling"} :
               clerk' = [clerk EXCEPT ![c].pc = pc, ![c].order = o]
        BY <2>3 DEF OpenConfirm, OpenCancel
      <3> DEFINE local == [clerk[c] EXCEPT !.pc = pc, !.order = o]
      <3>2. clerk' = [clerk EXCEPT ![c] = local]
        BY <1>0, <3>1
      <3>3. local.pc = pc /\ local.order = o
        BY <1>0 DEF Clerk
      <3>4. order[o].status # "none"
        BY <2>3 DEF OpenConfirm, OpenCancel, Confirmable, Cancellable
      <3> HIDE DEF local
      <3> QED BY <3>2, <3>3, <3>4
    <2> QED BY <2>1, <2>2, <2>3
  <1>2. /\ UNCHANGED <<product, kardex, order, item, itemLock>>
        /\ clerk[c].pc = "idle" /\ \E kind \in Kinds : Ready(c, kind)
    BY DEF OpenCreate, OpenUpdate, OpenConfirm, OpenCancel, Ready, inventoryVars
  <1>3. Held(c) = {} /\ Held(c)' = {}
    BY <1>2, NothingInHand DEF ReceivingStates, Held
  <1>4. UpdatesAlone'
    BY <1>1, <1>2, UpdatesAloneStep DEF OrdersSoundInv, UpdatingStates
  <1>5. ClerkSound(local, {})
    BY <1>1 DEF ClerkSound, UpdatingStates, ReceivingStates
  <1> QED BY <1>1, <1>2, <1>3, <1>4, <1>5, ClerkGoesOn

\* Requests that are refused or fail: their items are free again.
LEMMA RefusedSound ==
    ASSUME NoRacingUpdates, OrdersTypeInv, OrdersTypeInv', OrdersSoundInv, NEW c \in Clerks,
           RefuseWrite(c) \/ AbortClerk(c) \/ \E o \in Orders : RefuseClerk(c, o)
    PROVE  OrdersSoundInv'
  <1>0. clerk[c] \in Clerk /\ clerk \in [Clerks -> Clerk] /\ None \notin Clerks
    BY PurchaseOrdersAssumption, InventoryAssumption DEF OrdersTypeInv, OrdersTypeOK
  <1>1. /\ UNCHANGED <<product, kardex, order, item>>
        /\ End(c, "refused") /\ clerk[c].pc # "done"
        /\ c \in Served \/ \E kind \in Kinds : Ready(c, kind)
    <2>1. CASE RefuseWrite(c)
      BY <2>1 DEF RefuseWrite, Served
    <2>2. CASE AbortClerk(c)
      BY <2>2 DEF AbortClerk, Served
    <2>3. CASE \E o \in Orders : RefuseClerk(c, o)
      BY <2>3 DEF RefuseClerk, inventoryVars, Ready
    <2> QED BY <2>1, <2>2, <2>3
  <1>2. itemLock' = ItemsReleased(c) \/ (itemLock' = itemLock /\ clerk[c].pc = "idle")
    BY DEF RefuseWrite, AbortClerk, RefuseClerk, Ready
  <1>3. PICK local \in Clerk : clerk' = [clerk EXCEPT ![c] = local] /\ local.pc = "refused"
    BY <1>1, EndsWithNothing
  <1>4. Held(c)' = {} /\ \A d \in Clerks : d # c => \A i \in ItemId : itemLock'[i] = d <=> itemLock[i] = d
    <2>1. CASE itemLock' = ItemsReleased(c)
      BY <1>0, <2>1 DEF ItemsReleased, Held
    <2>2. CASE itemLock' = itemLock /\ clerk[c].pc = "idle"
      <3>1. Held(c) = {}
        BY <2>2 DEF OrdersSoundInv, ClerkSound, ReceivingStates
      <3> QED BY <2>2, <3>1 DEF Held
    <2> QED BY <1>2, <2>1, <2>2
  <1>5. UpdatesAlone'
    BY <1>1, <1>3, UpdatesAloneStep DEF OrdersSoundInv, UpdatingStates
  <1>6. ClerkSound(local, {})
    BY <1>3 DEF ClerkSound, UpdatingStates, ReceivingStates
  <1> QED BY <1>1, <1>3, <1>4, <1>5, <1>6, ClerkGoesOn

\* A receipt opens on items the order has.
LEMMA OpenReceiveSound ==
    ASSUME NoRacingUpdates, OrdersTypeInv, OrdersTypeInv', OrdersKardexInv, OrdersSoundInv,
           NEW c \in Clerks, NEW o \in Orders, OpenReceive(c, o)
    PROVE  OrdersSoundInv'
  <1>0. clerk[c] \in Clerk /\ clerk \in [Clerks -> Clerk]
    BY DEF OrdersTypeInv, OrdersTypeOK
  <1>1. PICK chosen, units :
           /\ clerk' = [clerk EXCEPT ![c].pc = "receiving", ![c].order = o, ![c].todo = chosen,
                                     ![c].now = units]
           /\ chosen \subseteq ItemsOf(o)
    <2>1. PICK now \in [ItemsOf(o) -> 0..MaxOrdered] :
             clerk' = [clerk EXCEPT ![c].pc = "receiving", ![c].order = o,
                   ![c].todo = {i \in ItemsOf(o) : now[i] > 0},
                   ![c].now = [i \in ItemId |-> IF i \in {j \in ItemsOf(o) : now[j] > 0}
                                                THEN now[i] ELSE 0]]
      BY DEF OpenReceive
    <2>2. {i \in ItemsOf(o) : now[i] > 0} \subseteq ItemsOf(o)
      OBVIOUS
    <2> QED BY <2>1, <2>2
  <1> DEFINE local == [clerk[c] EXCEPT !.pc = "receiving", !.order = o, !.todo = chosen, !.now = units]
  <1>2. clerk' = [clerk EXCEPT ![c] = local]
    BY <1>0, <1>1
  <1>3. /\ local.pc = "receiving" /\ local.order = o /\ local.todo = chosen /\ local.now = units
        /\ local.add = clerk[c].add
    BY <1>0 DEF Clerk
  <1> HIDE DEF local
  <1>4. /\ UNCHANGED <<product, kardex, order, item, itemLock>>
        /\ clerk[c].pc = "idle" /\ \E kind \in Kinds : Ready(c, kind)
        /\ order[o].status \in {"PENDING", "PARTIAL_RECEIVED"}
    BY DEF OpenReceive, Receivable, Ready, inventoryVars
  <1>5. Held(c) = {} /\ Held(c)' = {} /\ \A p \in Products : local.add[p] = 0
    BY <1>3, <1>4, NothingInHand DEF ReceivingStates, Held
  <1>6. UpdatesAlone'
    BY <1>2, <1>3, <1>4, UpdatesAloneStep DEF OrdersSoundInv, UpdatingStates
  <1>7. ReceiptSound(local, {})
    <2>1. \A i \in ItemsOf(o) : ProductOf(i) \in Products
      BY ItemParts DEF ItemsOf
    <2> QED BY <1>1, <1>3, <1>4, <1>5, <2>1 DEF ReceiptSound, Added
  <1>8. ClerkSound(local, {})
    BY <1>3, <1>4, <1>7 DEF ClerkSound, UpdatingStates, ReceivingStates
  <1> QED BY <1>2, <1>3, <1>4, <1>5, <1>6, <1>8, ClerkGoesOn

\* An update, alone on its order, selects all its items and locks them.
LEMMA UpdateSound ==
    ASSUME NoRacingUpdates, OrdersTypeInv, OrdersTypeInv', OrdersSoundInv, NEW c \in Clerks,
           SelectItems(c) \/ DeleteItems(c)
    PROVE  OrdersSoundInv'
  <1>0. clerk[c] \in Clerk /\ clerk \in [Clerks -> Clerk]
    BY DEF OrdersTypeInv, OrdersTypeOK
  <1> DEFINE o == clerk[c].order
  <1>1. /\ clerk[c].pc \in {"replacing", "deleting"} /\ c \in Served /\ clerk[c].pc # "done"
        /\ UNCHANGED <<product, kardex, order, item>>
    BY DEF SelectItems, DeleteItems, Served, inventoryVars
  <1>2. /\ ClerkSound(clerk[c], Held(c)) /\ Held(c) = {} /\ o \in Orders /\ order[o].status = "DRAFT"
        /\ "update" \in Kinds
    BY <1>1 DEF OrdersSoundInv, UpdatesAlone, ClerkSound, UpdatingStates, ReceivingStates
  <1>3. CASE SelectItems(c)
    <2> DEFINE local == [clerk[c] EXCEPT !.pc = "deleting", !.todo = ItemsOf(clerk[c].order)]
    <2>1. clerk' = [clerk EXCEPT ![c] = local]
      BY <1>0, <1>3 DEF SelectItems
    <2>2. local.pc = "deleting" /\ local.order = o /\ local.todo = ItemsOf(o)
      BY <1>0 DEF Clerk
    <2> HIDE DEF local
    <2>3. ClerkSound(local, {})
      BY <1>2, <2>2 DEF ClerkSound, UpdatingStates, ReceivingStates
    <2>4. UpdatesAlone'
      BY <1>1, <1>2, <2>1, UpdatesAloneStep DEF OrdersSoundInv
    <2>5. Held(c)' = {} /\ itemLock' = itemLock
      BY <1>2, <1>3 DEF SelectItems, Held
    <2> QED BY <1>1, <2>1, <2>2, <2>3, <2>4, <2>5, ClerkGoesOn
  <1>4. CASE DeleteItems(c)
    <2> DEFINE local == [clerk[c] EXCEPT !.pc = "inserting"]
    <2>1. clerk' = [clerk EXCEPT ![c] = local]
      BY <1>0, <1>4 DEF DeleteItems
    <2>2. local.pc = "inserting" /\ local.order = o
      BY <1>0 DEF Clerk
    <2> HIDE DEF local
    <2>3. clerk[c].todo = ItemsOf(o) /\ ItemsOf(o) \subseteq ItemId
      BY <1>2, <1>4 DEF DeleteItems, ClerkSound, ItemsOf
    <2>4. /\ itemLock' = [i \in ItemId |-> IF i \in ItemsOf(o) THEN c ELSE itemLock[i]]
          /\ \A i \in ItemsOf(o) : itemLock[i] = None
      BY <1>4, <2>3 DEF DeleteItems
    <2>5. Held(c)' = ItemsOf(o)
      BY <1>2, <2>3, <2>4 DEF Held
    <2>6. \A d \in Clerks : d # c => \A i \in ItemId : itemLock'[i] = d <=> itemLock[i] = d
      BY <2>4, PurchaseOrdersAssumption, InventoryAssumption
    <2>7. ClerkSound(local, ItemsOf(o))
      BY <1>2, <2>2 DEF ClerkSound, UpdatingStates, ReceivingStates
    <2>8. UpdatesAlone'
      BY <1>1, <1>2, <2>1, UpdatesAloneStep DEF OrdersSoundInv
    <2> QED BY <1>1, <2>1, <2>2, <2>5, <2>6, <2>7, <2>8, ClerkGoesOn
  <1> QED BY <1>3, <1>4

\* A receipt checks its items, reads their products and writes their stock, and counts
\* each of them once.
LEMMA ReceiptStepSound ==
    ASSUME NoRacingUpdates, OrdersTypeInv, OrdersTypeInv', OrdersKardexInv, OrdersSoundInv,
           NEW c \in Clerks,
           (\E i \in ItemId : CheckItem(c, i)) \/ ReadProduct(c) \/ AddStock(c) \/ CountItem(c) \/ ReadItems(c)
    PROVE  OrdersSoundInv'
  <1>0. clerk[c] \in Clerk /\ clerk \in [Clerks -> Clerk]
    BY DEF OrdersTypeInv, OrdersTypeOK
  <1> DEFINE o == clerk[c].order
  <1>1. /\ clerk[c].pc \in ReceivingStates /\ c \in Served /\ clerk[c].pc # "done"
        /\ UNCHANGED <<product, kardex, order, item>>
    BY DEF CheckItem, ReadProduct, AddStock, CountItem, ReadItems, Served, ReceivingStates, inventoryVars
  <1>2. /\ ClerkSound(clerk[c], Held(c)) /\ ReceiptSound(clerk[c], Held(c))
        /\ o \in Orders /\ order[o].status # "none" /\ Held(c) \subseteq ItemsOf(o)
    BY <1>1 DEF OrdersSoundInv, ClerkSound, ReceivingStates
  <1>3. ASSUME NEW local, NEW held, clerk' = [clerk EXCEPT ![c] = local], local.order = o,
               local.pc \in ReceivingStates, Held(c)' = held, held \subseteq ItemsOf(o),
               \A d \in Clerks : d # c => \A i \in ItemId : itemLock'[i] = d <=> itemLock[i] = d,
               ReceiptSound(local, held)
        PROVE  OrdersSoundInv'
    <2>1. ClerkSound(local, held)
      BY <1>2, <1>3 DEF ClerkSound, UpdatingStates, ReceivingStates
    <2>2. UpdatesAlone'
      BY <1>1, <1>3, UpdatesAloneStep DEF OrdersSoundInv, UpdatingStates, ReceivingStates
    <2> QED BY <1>1, <1>3, <2>1, <2>2, ClerkGoesOn DEF ReceivingStates
  <1>4. \A i \in ItemsOf(o) : i \in ItemId /\ ProductOf(i) \in Products
    BY ItemParts DEF ItemsOf
  <1>5. ASSUME NEW i \in ItemId, CheckItem(c, i) PROVE OrdersSoundInv'
    <2> DEFINE local == [clerk[c] EXCEPT !.pc = "checked", !.current = i, !.todo = clerk[c].todo \ {i}]
    <2>1. clerk' = [clerk EXCEPT ![c] = local]
      BY <1>0, <1>5 DEF CheckItem
    <2>2. /\ local.pc = "checked" /\ local.order = o /\ local.todo = clerk[c].todo \ {i}
          /\ local.current = i /\ local.add = clerk[c].add /\ local.now = clerk[c].now
      BY <1>0 DEF Clerk
    <2> HIDE DEF local
    <2>3. clerk[c].pc = "receiving" /\ i \in clerk[c].todo /\ itemLock' = itemLock
      BY <1>5 DEF CheckItem
    <2>4. ReceiptSound(local, Held(c))
      BY <1>2, <2>2, <2>3 DEF ReceiptSound, Added
    <2>5. Held(c)' = Held(c)
      BY <2>3 DEF Held
    <2> QED BY <1>2, <1>3, <2>1, <2>2, <2>3, <2>4, <2>5 DEF ReceivingStates
  <1>6. ASSUME ReadProduct(c) PROVE OrdersSoundInv'
    <2> DEFINE p == ProductOf(clerk[c].current)
               seen == [product[p] EXCEPT !.stock = @ + clerk[c].add[p]]
               pc == IF TracksStock(product[p]) THEN "writing" ELSE "counting"
               local == [clerk[c] EXCEPT !.pc = pc, !.seen = seen]
    <2>1. clerk' = [clerk EXCEPT ![c] = local]
      <3> HIDE DEF seen
      <3>1. clerk' = [clerk EXCEPT ![c].pc = pc, ![c].seen = seen]
        BY <1>6 DEF ReadProduct, seen
      <3> QED BY <1>0, <3>1
    <2> HIDE DEF seen
    <2>2. /\ local.pc = pc /\ local.order = o /\ local.todo = clerk[c].todo
          /\ local.current = clerk[c].current /\ local.add = clerk[c].add /\ local.now = clerk[c].now
      BY <1>0 DEF Clerk
    <2> HIDE DEF local
    <2>3. clerk[c].pc = "checked" /\ itemLock' = itemLock
      BY <1>6 DEF ReadProduct
    <2>4. ReceiptSound(local, Held(c))
      <3>1. \A i \in ItemsOf(o) : TracksStock(product[ProductOf(i)]) =>
                (i \in Added(local, Held(c)) <=> i \in Added(clerk[c], Held(c)))
        BY <2>2, <2>3 DEF Added
      <3> QED BY <1>2, <2>2, <2>3, <3>1 DEF ReceiptSound
    <2>5. Held(c)' = Held(c)
      BY <2>3 DEF Held
    <2> QED BY <1>2, <1>3, <2>1, <2>2, <2>3, <2>4, <2>5 DEF ReceivingStates
  <1>7. ASSUME AddStock(c) PROVE OrdersSoundInv'
    <2> DEFINE j == clerk[c].current
               p == ProductOf(j)
               n == clerk[c].now[j]
               add == [clerk[c].add EXCEPT ![p] = clerk[c].add[p] + n]
               rows == [clerk[c].rows EXCEPT ![p] = Append(clerk[c].rows[p],
                          MovementRow("PURCHASE", clerk[c].seen.stock, clerk[c].seen.stock + n, clerk[c].order))]
               local == [clerk[c] EXCEPT !.pc = "counting", !.add = add, !.rows = rows]
    <2>1. clerk' = [clerk EXCEPT ![c] = local]
      BY <1>0, <1>7 DEF AddStock, Clerk
    <2> HIDE DEF rows
    <2>2. /\ local.pc = "counting" /\ local.order = o /\ local.todo = clerk[c].todo
          /\ local.current = j /\ local.add = add /\ local.now = clerk[c].now
      BY <1>0 DEF Clerk
    <2> HIDE DEF local
    <2>3. clerk[c].pc = "writing" /\ itemLock' = itemLock
      BY <1>7 DEF AddStock
    <2>4. TracksStock(product[p])
      BY <2>3 DEF OrdersKardexInv, ReadsTheRow
    <2>5. j \in ItemsOf(o) \ (Held(c) \cup clerk[c].todo) /\ p \in Products /\ clerk[c].add[p] = 0
      BY <1>2, <1>4, <2>3 DEF ReceiptSound, Added
    <2>6. /\ clerk[c].add \in [Products -> Nat] /\ n \in Nat
      BY <1>0, <1>4, <2>5, PurchaseOrdersAssumption DEF Clerk
    <2>7. \A q \in Products : add[q] = IF q = p THEN n ELSE clerk[c].add[q]
      BY <2>5, <2>6
    <2>8. \A i \in ItemsOf(o) : ProductOf(i) = p => i = j
      BY <1>2, <2>5 DEF OrdersSoundInv, OrderSound
    <2>9. ReceiptSound(local, Held(c))
      <3>1. ASSUME NEW i \in ItemsOf(o)
            PROVE  local.add[ProductOf(i)] =
                      IF TracksStock(product[ProductOf(i)]) /\ i \in Added(local, Held(c))
                      THEN local.now[i] ELSE 0
        <4>1. CASE i = j
          BY <1>4, <2>2, <2>4, <2>5, <2>7, <4>1 DEF Added
        <4>2. CASE i # j
          <5>1. add[ProductOf(i)] = clerk[c].add[ProductOf(i)]
            BY <1>4, <2>7, <2>8, <4>2
          <5> QED BY <1>2, <2>2, <2>3, <4>2, <5>1 DEF Added, ReceiptSound
        <4> QED BY <4>1, <4>2
      <3>2. ASSUME NEW q \in Products, \A i \in ItemsOf(o) : ProductOf(i) # q
            PROVE  local.add[q] = 0
        <4>1. q # p
          BY <2>5, <3>2
        <4>2. clerk[c].add[q] = 0
          BY <1>2, <3>2 DEF ReceiptSound
        <4> HIDE DEF add
        <4> QED BY <2>2, <2>7, <4>1, <4>2
      <3> QED BY <1>2, <2>2, <2>3, <3>1, <3>2 DEF ReceiptSound
    <2>10. Held(c)' = Held(c)
      BY <2>3 DEF Held
    <2> QED BY <1>2, <1>3, <2>1, <2>2, <2>3, <2>9, <2>10 DEF ReceivingStates
  <1>8. ASSUME CountItem(c) PROVE OrdersSoundInv'
    <2> DEFINE j == clerk[c].current
               local == [clerk[c] EXCEPT !.pc = "receiving", !.current = None]
               held == Held(c) \cup {j}
    <2>1. clerk' = [clerk EXCEPT ![c] = local]
      BY <1>0, <1>8 DEF CountItem
    <2>2. /\ local.pc = "receiving" /\ local.order = o /\ local.todo = clerk[c].todo
          /\ local.add = clerk[c].add /\ local.now = clerk[c].now
      BY <1>0 DEF Clerk
    <2> HIDE DEF local
    <2>3. clerk[c].pc = "counting" /\ itemLock[j] = None /\ itemLock' = [itemLock EXCEPT ![j] = c]
      BY <1>8 DEF CountItem
    <2>4. j \in ItemsOf(o) \ (Held(c) \cup clerk[c].todo) /\ j \in ItemId
      BY <1>2, <1>4, <2>3 DEF ReceiptSound
    <2>5. \A i \in ItemId : itemLock'[i] = IF i = j THEN c ELSE itemLock[i]
      BY <2>3, <2>4 DEF OrdersTypeInv, OrdersTypeOK
    <2>6. Held(c)' = held
      BY <2>4, <2>5 DEF Held
    <2>7. \A d \in Clerks : d # c => \A i \in ItemId : itemLock'[i] = d <=> itemLock[i] = d
      BY <2>3, <2>5, PurchaseOrdersAssumption, InventoryAssumption
    <2>8. Added(local, held) = Added(clerk[c], Held(c))
      BY <2>2, <2>3 DEF Added
    <2>9. ReceiptSound(local, held)
      <3> HIDE DEF held
      <3>1. clerk[c].todo \subseteq ItemsOf(o) \ held
        BY <1>2, <2>4 DEF ReceiptSound, held
      <3> QED BY <1>2, <2>2, <2>3, <2>8, <3>1 DEF ReceiptSound
    <2>10. held \subseteq ItemsOf(o)
      BY <1>2, <2>4
    <2> HIDE DEF held
    <2> QED BY <1>3, <2>1, <2>2, <2>6, <2>7, <2>9, <2>10 DEF ReceivingStates
  <1>9. ASSUME ReadItems(c) PROVE OrdersSoundInv'
    <2> DEFINE all == AllReceived(c)
               local == [clerk[c] EXCEPT !.pc = "closing", !.allReceived = all]
    <2>1. clerk' = [clerk EXCEPT ![c] = local]
      BY <1>0, <1>9 DEF ReadItems
    <2> HIDE DEF all
    <2>2. /\ local.pc = "closing" /\ local.order = o /\ local.todo = clerk[c].todo
          /\ local.add = clerk[c].add /\ local.now = clerk[c].now /\ (local.allReceived <=> all)
      BY <1>0 DEF Clerk
    <2> HIDE DEF local
    <2>3. clerk[c].pc = "receiving" /\ itemLock' = itemLock
      BY <1>9 DEF ReadItems
    <2>4. all => \A i \in ItemsOf(o) :
             item[i].qtyReceived + (IF i \in Held(c) THEN clerk[c].now[i] ELSE 0) >= item[i].qtyOrdered
      BY <1>4 DEF all, AllReceived, ReceivedSeenBy, Held
    <2>5. ReceiptSound(local, Held(c))
      <3>1. Added(local, Held(c)) = Added(clerk[c], Held(c))
        BY <2>2, <2>3 DEF Added
      <3> QED BY <1>2, <2>2, <2>3, <2>4, <3>1 DEF ReceiptSound
    <2>6. Held(c)' = Held(c)
      BY <2>3 DEF Held
    <2> QED BY <1>2, <1>3, <2>1, <2>2, <2>3, <2>5, <2>6 DEF ReceivingStates
  <1> QED BY <1>5, <1>6, <1>7, <1>8, <1>9

-----------------------------------------------------------------------------
\* A step that writes an order and ends its request: the other orders, and what the
\* other requests know, stay as they were.
LEMMA ClerkEnds ==
    ASSUME OrdersTypeInv, OrdersTypeInv', OrdersSoundInv, NEW c \in Served, NEW o \in Orders,
           NoRacingUpdates, o = clerk[c].order, End(c, "done"),
           \A x \in Orders : x # o => order'[x] = order[x],
           \A i \in ItemId, x \in Orders : x # o => (item'[i].order = x <=> item[i].order = x),
           \A i \in ItemId : item'[i].order \notin {o, None} => item'[i] = item[i],
           \A p \in Products : TracksStock(product'[p]) <=> TracksStock(product[p]),
           \A x \in Orders, p \in Products : x # o => Purchased(kardex'[p], x) = Purchased(kardex[p], x),
           \A i \in ItemId, d \in Clerks : itemLock'[i] = d <=> d # c /\ itemLock[i] = d,
           \A d \in Served : d # c /\ clerk[d].order = o =>
              /\ order[o].status = "none" <=> order'[o].status = "none"
              /\ order[o].status # "DRAFT" => order'[o].status # "DRAFT"
              /\ clerk[d].pc \in UpdatingStates => order'[o].status = "DRAFT"
              /\ \A i \in ItemId : item'[i].order = o <=> item[i].order = o
              /\ \A i \in ItemsOf(o) : /\ item'[i].qtyOrdered = item[i].qtyOrdered
                                       /\ item'[i].qtyReceived >= item[i].qtyReceived,
           FreshItems', OrderSound(o)'
    PROVE  OrdersSoundInv'
  <1>0. clerk \in [Clerks -> Clerk] /\ c \in Clerks
    BY DEF OrdersTypeInv, OrdersTypeOK, Served
  <1>1. PICK local \in Clerk : clerk' = [clerk EXCEPT ![c] = local] /\ local.pc = "done"
    BY <1>0, EndsWithNothing
  <1>2. \A d \in Clerks : clerk'[d] = IF d = c THEN local ELSE clerk[d]
    BY <1>0, <1>1
  <1>3. UpdatesAlone'
    BY <1>0, <1>1, UpdatesAloneStep DEF OrdersSoundInv, UpdatingStates
  <1>4. CreatesAlone'
    BY <1>1, <1>2 DEF OrdersSoundInv, CreatesAlone
  <1>5. ASSUME NEW x \in Orders, x # o PROVE OrderSound(x)'
    <2>1. OrderSound(x) /\ x # None /\ order'[x] = order[x]
      BY <1>5, PurchaseOrdersAssumption DEF OrdersSoundInv
    <2>2. ItemsOf(x)' = ItemsOf(x)
      BY <1>5 DEF ItemsOf
    <2>3. \A i \in ItemsOf(x) : item'[i] = item[i] /\ ProductOf(i) \in Products
      <3>1. \A i \in ItemsOf(x) : i \in ItemId /\ item[i].order = x
        BY DEF ItemsOf
      <3> QED BY <1>5, <2>1, <3>1, ItemParts
    <2>4. \A p \in Products : Purchased(kardex[p], x)' = Purchased(kardex[p], x)
      <3>1. \A p \in Products : Purchased(kardex'[p], x) = Purchased(kardex[p], x)
        BY <1>5
      <3> QED BY <3>1 DEF Purchased, PurchaseRows
    <2>5. \A p \in Products : TracksStock(product[p])' <=> TracksStock(product[p])
      BY DEF TracksStock
    <2> QED BY <2>1, <2>2, <2>3, <2>4, <2>5 DEF OrderSound
  <1>6. ASSUME NEW d \in Clerks PROVE ClerkSound(clerk[d], Held(d))'
    <2>1. CASE d = c
      <3>1. clerk'[c].pc = "done" /\ Held(c)' = {}
        BY <1>0, <1>1, <1>2 DEF Held
      <3> QED BY <2>1, <3>1 DEF ClerkSound, UpdatingStates, ReceivingStates
    <2>2. CASE d # c
      <3>1. clerk'[d] = clerk[d] /\ ClerkSound(clerk[d], Held(d))
        BY <1>2, <2>2 DEF OrdersSoundInv
      <3>2. \A i \in ItemId : itemLock'[i] = d <=> itemLock[i] = d
        BY <2>2
      <3>3. ASSUME d \in Served
            PROVE LET x == clerk[d].order IN
              /\ order[x].status = "none" <=> order'[x].status = "none"
              /\ order[x].status # "DRAFT" => order'[x].status # "DRAFT"
              /\ clerk[d].pc \in UpdatingStates => order'[x].status = "DRAFT"
              /\ \A i \in ItemId : item'[i].order = x <=> item[i].order = x
              /\ \A i \in ItemsOf(x) : /\ item'[i].qtyOrdered = item[i].qtyOrdered
                                       /\ item'[i].qtyReceived >= item[i].qtyReceived
        <4> DEFINE x == clerk[d].order
        <4>1. x \in Orders /\ x # None /\ (clerk[d].pc \in UpdatingStates => order[x].status = "DRAFT")
          BY <3>1, <3>3, PurchaseOrdersAssumption DEF ClerkSound, Served
        <4>2. CASE x = o
          BY <2>2, <3>3, <4>2
        <4>3. CASE x # o
          <5>1. \A i \in ItemsOf(x) : item'[i] = item[i] /\ item[i].qtyReceived \in Nat
            <6>1. \A i \in ItemsOf(x) : i \in ItemId /\ item[i].order = x
              BY DEF ItemsOf
            <6>2. \A i \in ItemId : item[i] \in ItemRow
              BY DEF OrdersTypeInv, OrdersTypeOK
            <6> QED BY <4>1, <4>3, <6>1, <6>2 DEF ItemRow
          <5>2. order'[x] = order[x] /\ \A i \in ItemId : item'[i].order = x <=> item[i].order = x
            BY <4>1, <4>3
          <5>3. \A i \in ItemsOf(x) : item'[i].qtyOrdered = item[i].qtyOrdered
                                       /\ item'[i].qtyReceived >= item[i].qtyReceived
            BY <5>1
          <5> QED BY <4>1, <5>2, <5>3
        <4> QED BY <4>2, <4>3
      <3> QED BY <3>1, <3>2, <3>3, StillSound
    <2> QED BY <2>1, <2>2
  <1>7. \A x \in Orders : OrderSound(x)'
    BY <1>5
  <1> QED BY <1>3, <1>4, <1>6, <1>7 DEF OrdersSoundInv

\* Confirmations and cancellations change the status of an order, from whatever it is
\* by then, and nothing a total, a kardex row or a receipt depends on.
LEMMA StatusSound ==
    ASSUME NoRacingUpdates, OrdersTypeInv, OrdersTypeInv', OrdersSoundInv, NEW c \in Clerks,
           Confirm(c) \/ Cancel(c)
    PROVE  OrdersSoundInv'
  <1>1. /\ c \in Served /\ End(c, "done") /\ clerk[c].pc \in {"confirming", "cancelling"}
        /\ UNCHANGED <<product, kardex, item, itemLock>>
    BY DEF Confirm, Cancel, Served, inventoryVars
  <1>2. PICK o \in Orders : o = clerk[c].order /\ order[o].status # "none"
    BY <1>1 DEF OrdersSoundInv, ClerkSound
  <1>3. Held(c) = {} /\ order \in [Orders -> OrderRow]
    BY <1>1 DEF OrdersSoundInv, ClerkSound, ReceivingStates, OrdersTypeInv, OrdersTypeOK
  <1>4. PICK status \in {"PENDING", "CANCELLED"} : order' = [order EXCEPT ![o].status = status]
    BY <1>2 DEF Confirm, Cancel
  <1>5. /\ order'[o].status = status /\ order'[o].total = order[o].total
        /\ \A x \in Orders : x # o => order'[x] = order[x]
    BY <1>3, <1>4 DEF OrderRow
  <1>6. FreshItems'
    <2>1. \A d \in Clerks : clerk'[d].pc = IF d = c THEN "done" ELSE clerk[d].pc
      BY <1>1, IdleClerkType DEF End, OrdersTypeInv, OrdersTypeOK
    <2> QED BY <1>1, <2>1 DEF OrdersSoundInv, FreshItems
  <1>7. OrderSound(o)'
    <2>1. OrderSound(o)
      BY DEF OrdersSoundInv
    <2>2. ItemsOf(o)' = ItemsOf(o)
      BY <1>1 DEF ItemsOf
    <2>3. \A p \in Products : Purchased(kardex[p], o)' = Purchased(kardex[p], o)
      BY <1>1 DEF Purchased, PurchaseRows
    <2>4. \A i \in ItemsOf(o) : ProductOf(i) \in Products
      BY ItemParts DEF ItemsOf
    <2> QED BY <1>1, <1>2, <1>5, <2>1, <2>2, <2>3, <2>4 DEF OrderSound, TracksStock
  <1>8. \A i \in ItemId, d \in Clerks : itemLock'[i] = d <=> d # c /\ itemLock[i] = d
    BY <1>1, <1>3 DEF Held
  <1>9. \A d \in Served : d # c => clerk[d].pc \notin UpdatingStates
    BY <1>1 DEF OrdersSoundInv, UpdatesAlone, Served
  <1>10. \A i \in ItemsOf(o) : item'[i].qtyReceived >= item[i].qtyReceived
    <2>1. \A i \in ItemId : item[i] \in ItemRow
      BY DEF OrdersTypeInv, OrdersTypeOK
    <2> QED BY <1>1, <2>1 DEF ItemsOf, ItemRow
  <1>11. /\ \A p \in Products : TracksStock(product'[p]) <=> TracksStock(product[p])
         /\ \A x \in Orders, p \in Products : Purchased(kardex'[p], x) = Purchased(kardex[p], x)
         /\ item' = item
    BY <1>1
  <1> HIDE <1>1
  <1> QED
    <2>1. c \in Served /\ End(c, "done")
      BY <1>1
    <2> QED BY <1>2, <1>5, <1>6, <1>7, <1>8, <1>9, <1>10, <1>11, <2>1, ClerkEnds

\* The items of lines, as w inserts them.
NewItems(w, lines) == {i \in ItemId : i[1] = w /\ lines[i[2]] > 0}

\* Lines have an item for each of their products.
LEMMA NewItemsParts ==
    ASSUME NEW w \in Orders \cup Clerks, NEW lines \in [Products -> 0..MaxOrdered]
    PROVE  /\ \A i \in NewItems(w, lines) :
                 i \in ItemId /\ i[1] = w /\ ProductOf(i) \in Products /\ ProductOf(i) = i[2]
           /\ \A i, j \in NewItems(w, lines) : ProductOf(i) = ProductOf(j) => i = j
           /\ \A p \in Products : (\A i \in NewItems(w, lines) : ProductOf(i) # p) => lines[p] = 0
  <1>1. ASSUME NEW i \in NewItems(w, lines)
        PROVE  /\ i \in ItemId /\ i[1] = w /\ ProductOf(i) \in Products /\ ProductOf(i) = i[2]
               /\ i = <<w, ProductOf(i)>>
    BY DEF NewItems, ItemId, ProductOf
  <1>2. \A i, j \in NewItems(w, lines) : ProductOf(i) = ProductOf(j) => i = j
    BY <1>1
  <1>3. ASSUME NEW p \in Products, lines[p] # 0
        PROVE  \E i \in NewItems(w, lines) : ProductOf(i) = p
    <2>1. lines[p] > 0
      BY <1>3, PurchaseOrdersAssumption
    <2>2. <<w, p>> \in ItemId /\ <<w, p>>[1] = w /\ <<w, p>>[2] = p /\ ProductOf(<<w, p>>) = p
      BY DEF ItemId, ProductOf
    <2> QED BY <2>1, <2>2 DEF NewItems
  <1>4. \A i \in NewItems(w, lines) :
           i \in ItemId /\ i[1] = w /\ ProductOf(i) \in Products /\ ProductOf(i) = i[2]
    BY <1>1
  <1>5. \A p \in Products : (\A i \in NewItems(w, lines) : ProductOf(i) # p) => lines[p] = 0
    BY <1>3
  <1> QED BY <1>2, <1>4, <1>5

\* The items after w inserted what lines name into table, for order o.
ItemsInserted(table, w, lines, o) ==
    /\ \A i \in NewItems(w, lines) : /\ item'[i].order = o /\ item'[i].qtyReceived = 0
                                     /\ item'[i].qtyOrdered = lines[ProductOf(i)]
    /\ \A i \in ItemId \ NewItems(w, lines) : item'[i] = table[i]

\* What an insertion writes: those items, with nothing received, and no other.
LEMMA InsertedItems ==
    ASSUME NEW table, NEW w \in Orders \cup Clerks, NEW lines \in [Products -> 0..MaxOrdered],
           NEW o, item' = Insert(table, w, lines, o)
    PROVE  ItemsInserted(table, w, lines, o)
  <1>1. \A i \in ItemId :
           item'[i] = IF i \in NewItems(w, lines)
                      THEN [order |-> o, qtyOrdered |-> lines[i[2]], qtyReceived |-> 0]
                      ELSE table[i]
    BY DEF Insert, NewItems
  <1>2. ASSUME NEW i \in NewItems(w, lines)
        PROVE  /\ item'[i].order = o /\ item'[i].qtyReceived = 0
               /\ item'[i].qtyOrdered = lines[ProductOf(i)]
    <2>1. i \in ItemId /\ ProductOf(i) = i[2]
      BY NewItemsParts
    <2>2. item'[i] = [order |-> o, qtyOrdered |-> lines[i[2]], qtyReceived |-> 0]
      BY <1>1, <2>1
    <2> QED BY <2>1, <2>2
  <1>3. \A i \in ItemId \ NewItems(w, lines) : item'[i] = table[i]
    BY <1>1
  <1> QED BY <1>2, <1>3 DEF ItemsInserted

\* A draft whose items were just inserted agrees with them.
LEMMA DraftSound ==
    ASSUME NEW o \in Orders, NEW table, NEW w \in Orders \cup Clerks,
           NEW lines \in [Products -> 0..MaxOrdered],
           item' = Insert(table, w, lines, o), ItemsOf(o)' = NewItems(w, lines),
           order'[o].status = "DRAFT", order'[o].total = lines,
           \A p \in Products : Purchased(kardex'[p], o) = 0
    PROVE  OrderSound(o)'
  <1>1. \A p \in Products : Purchased(kardex[p], o)' = 0
    BY DEF Purchased, PurchaseRows
  <1>2. /\ \A i \in NewItems(w, lines) : /\ item'[i].order = o /\ item'[i].qtyReceived = 0
                                         /\ item'[i].qtyOrdered = lines[ProductOf(i)]
        /\ \A i \in ItemId \ NewItems(w, lines) : item'[i] = table[i]
    BY InsertedItems DEF ItemsInserted
  <1>3. /\ \A i \in NewItems(w, lines) : ProductOf(i) \in Products
        /\ \A i, j \in NewItems(w, lines) : ProductOf(i) = ProductOf(j) => i = j
        /\ \A p \in Products : (\A i \in NewItems(w, lines) : ProductOf(i) # p) => lines[p] = 0
    BY NewItemsParts
  <1> QED BY <1>1, <1>2, <1>3 DEF OrderSound

\* The order and its items appear together, where there was neither.
LEMMA CreateSound ==
    ASSUME NoRacingUpdates, OrdersTypeInv, OrdersTypeInv', OrdersSoundInv, NEW c \in Clerks,
           CreateOrder(c)
    PROVE  OrdersSoundInv'
  <1>1. /\ c \in Served /\ End(c, "done") /\ clerk[c].pc = "creating"
        /\ UNCHANGED <<product, kardex, itemLock>>
    BY DEF CreateOrder, Served, inventoryVars
  <1>2. PICK o \in Orders : o = clerk[c].order /\ order[o].status = "none"
    BY <1>1 DEF OrdersSoundInv, ClerkSound
  <1>3. PICK lines \in [Products -> 0..MaxOrdered] : lines = clerk[c].lines
    BY DEF OrdersTypeInv, OrdersTypeOK, Clerk, OrderLines
  <1>4. /\ Held(c) = {} /\ order \in [Orders -> OrderRow] /\ clerk \in [Clerks -> Clerk]
        /\ OrderSound(o) /\ FreshItems /\ ItemsOf(o) = {} /\ o # None
    BY <1>1, <1>2, PurchaseOrdersAssumption
    DEF OrdersSoundInv, ClerkSound, OrderSound, ReceivingStates, OrdersTypeInv, OrdersTypeOK
  <1>5. /\ order' = [order EXCEPT ![o] = [status |-> "DRAFT", total |-> lines]]
        /\ item' = Insert(item, o, lines, o)
    BY <1>2, <1>3 DEF CreateOrder
  <1>6. /\ order'[o].status = "DRAFT" /\ order'[o].total = lines
        /\ \A x \in Orders : x # o => order'[x] = order[x]
    BY <1>4, <1>5
  <1> DEFINE new == NewItems(o, lines)
  <1>7. /\ \A i \in new : item'[i].order = o /\ i \in ItemId /\ i[1] = o
        /\ \A i \in ItemId \ new : item'[i] = item[i]
    <2>1. item' = Insert(item, o, lines, o) /\ o \in Orders \cup Clerks
      BY <1>5
    <2>2. ItemsInserted(item, o, lines, o)
      BY ONLY <2>1, InsertedItems
    <2>3. \A i \in NewItems(o, lines) : i \in ItemId /\ i[1] = o
      BY ONLY <2>1, NewItemsParts
    <2> QED BY ONLY <2>2, <2>3 DEF ItemsInserted, new
  <1> HIDE DEF new
  <1>8. \A i \in ItemId : i[1] = o => item[i].order = None
    BY <1>4 DEF FreshItems, ItemsOf, ItemId
  <1>9. FreshItems'
    <2>1. \A d \in Clerks : clerk'[d].pc = IF d = c THEN "done" ELSE clerk[d].pc
      BY <1>1, <1>4, IdleClerkType DEF End
    <2>2. \A d \in Clerks, p \in Products : <<d, p>> \in ItemId /\ <<d, p>>[1] = d /\ d # o
      BY PurchaseOrdersAssumption DEF ItemId
    <2>3. \A d \in Clerks, p \in Products : item'[<<d, p>>] = item[<<d, p>>]
      BY <1>7, <2>2
    <2>4. \A x \in Orders, p \in Products : item'[<<x, p>>].order \in {x, None}
      <3> SUFFICES ASSUME NEW x \in Orders, NEW p \in Products
                   PROVE  item'[<<x, p>>].order \in {x, None}
        OBVIOUS
      <3>1. <<x, p>> \in ItemId /\ <<x, p>>[1] = x
        BY DEF ItemId
      <3>2. item[<<x, p>>].order \in {x, None}
        BY <1>4 DEF FreshItems
      <3> QED BY <1>7, <3>1, <3>2
    <2> QED BY <1>4, <2>1, <2>3, <2>4 DEF FreshItems
  <1>10. ItemsOf(o)' = new
    <2>1. \A i \in ItemId : item[i].order # o
      BY <1>4 DEF ItemsOf
    <2> QED BY <1>7, <2>1 DEF ItemsOf
  <1>11. \A p \in Products : Purchased(kardex[p], o) = 0
    BY <1>4 DEF OrderSound
  <1>12. OrderSound(o)'
    <2>1. \A p \in Products : Purchased(kardex'[p], o) = 0
      BY <1>1, <1>11
    <2> QED BY <1>5, <1>6, <1>10, <2>1, DraftSound DEF new
  <1>13. \A d \in Served : d # c => clerk[d].order # o
    BY <1>1, <1>2 DEF OrdersSoundInv, ClerkSound, CreatesAlone, Served
  <1>14. /\ \A i \in ItemId, x \in Orders : x # o => (item'[i].order = x <=> item[i].order = x)
         /\ \A i \in ItemId : item'[i].order \notin {o, None} => item'[i] = item[i]
    BY <1>7, <1>8, PurchaseOrdersAssumption
  <1>15. \A i \in ItemId, d \in Clerks : itemLock'[i] = d <=> d # c /\ itemLock[i] = d
    BY <1>1, <1>4 DEF Held
  <1>16. /\ \A p \in Products : TracksStock(product'[p]) <=> TracksStock(product[p])
         /\ \A x \in Orders, p \in Products : Purchased(kardex'[p], x) = Purchased(kardex[p], x)
         /\ c \in Served /\ End(c, "done")
    BY <1>1
  <1> QED BY <1>2, <1>6, <1>9, <1>12, <1>13, <1>14, <1>15, <1>16, ClerkEnds

\* An update that nobody races leaves the items of its own lines, and only those.
LEMMA CommitUpdateSound ==
    ASSUME NoRacingUpdates, OrdersTypeInv, OrdersTypeInv', OrdersSoundInv, NEW c \in Clerks,
           CommitUpdate(c)
    PROVE  OrdersSoundInv'
  <1>1. /\ c \in Served /\ End(c, "done") /\ clerk[c].pc = "inserting"
        /\ UNCHANGED <<product, kardex>> /\ itemLock' = ItemsReleased(c)
    BY DEF CommitUpdate, Served, inventoryVars
  <1>2. PICK o \in Orders : o = clerk[c].order /\ order[o].status = "DRAFT"
    BY <1>1 DEF OrdersSoundInv, ClerkSound, UpdatingStates
  <1>3. PICK lines \in [Products -> 0..MaxOrdered] : lines = clerk[c].lines
    BY DEF OrdersTypeInv, OrdersTypeOK, Clerk, OrderLines
  <1>4. /\ Held(c) = ItemsOf(o) /\ order \in [Orders -> OrderRow] /\ clerk \in [Clerks -> Clerk]
        /\ OrderSound(o) /\ FreshItems /\ o # None
    BY <1>1, <1>2, PurchaseOrdersAssumption DEF OrdersSoundInv, ClerkSound, OrdersTypeInv, OrdersTypeOK
  <1>5. /\ order' = [order EXCEPT ![o].total = lines]
        /\ item' = Insert(RemainingItems(c), c, lines, o)
    BY <1>2, <1>3 DEF CommitUpdate
  <1>6. /\ order'[o].status = "DRAFT" /\ order'[o].total = lines
        /\ \A x \in Orders : x # o => order'[x] = order[x]
    BY <1>2, <1>4, <1>5 DEF OrderRow
  <1> DEFINE new == NewItems(c, lines)
  <1>7. /\ \A i \in new : item'[i].order = o /\ i \in ItemId /\ i[1] = c
        /\ \A i \in ItemId \ new : item'[i] = IF i \in ItemsOf(o) THEN NoItem ELSE item[i]
    <2>0. /\ \A i \in new : /\ item'[i].order = o /\ item'[i].qtyReceived = 0
                           /\ item'[i].qtyOrdered = lines[ProductOf(i)]
          /\ \A i \in ItemId \ new : item'[i] = RemainingItems(c)[i]
      <3>1. c \in Orders \cup Clerks
        OBVIOUS
      <3>2. PICK table : table = RemainingItems(c)
        OBVIOUS
      <3>3. item' = Insert(table, c, lines, o)
        BY <1>5, <3>2
      <3>4. ItemsInserted(table, c, lines, o)
        BY ONLY <3>1, <3>3, InsertedItems
      <3> QED BY ONLY <3>2, <3>4 DEF ItemsInserted, new
    <2>1. \A i \in new : i \in ItemId /\ i[1] = c
      BY NewItemsParts
    <2>2. \A i \in ItemId : RemainingItems(c)[i] = IF i \in ItemsOf(o) THEN NoItem ELSE item[i]
      BY <1>4 DEF RemainingItems, Held
    <2> HIDE DEF new
    <2> QED BY <2>0, <2>1, <2>2
  <1> HIDE DEF new
  <1>8. \A i \in ItemId : i[1] = c => item[i].order = None
    BY <1>1, <1>4 DEF FreshItems, ItemId
  <1>9. NoItem.order = None
    BY DEF NoItem
  <1>10. FreshItems'
    <2>1. \A d \in Clerks : clerk'[d].pc = IF d = c THEN "done" ELSE clerk[d].pc
      BY <1>1, <1>4, IdleClerkType DEF End
    <2>2. ASSUME NEW d \in Clerks, NEW p \in Products, item'[<<d, p>>].order # None
          PROVE  clerk'[d].pc = "done"
      <3>1. <<d, p>> \in ItemId /\ <<d, p>>[1] = d
        BY DEF ItemId
      <3>2. CASE d = c
        BY <2>1, <3>2
      <3>3. CASE d # c
        BY <1>4, <1>7, <1>9, <2>1, <2>2, <3>1, <3>3 DEF FreshItems
      <3> QED BY <3>2, <3>3
    <2>3. ASSUME NEW x \in Orders, NEW p \in Products
          PROVE  item'[<<x, p>>].order \in {x, None}
      <3>1. <<x, p>> \in ItemId /\ <<x, p>>[1] # c
        BY PurchaseOrdersAssumption DEF ItemId
      <3>2. item[<<x, p>>].order \in {x, None}
        BY <1>4 DEF FreshItems
      <3> QED BY <1>7, <1>9, <3>1, <3>2
    <2> QED BY <2>2, <2>3 DEF FreshItems
  <1>11. ItemsOf(o)' = new
    <2>1. \A i \in ItemId : item[i].order = o <=> i \in ItemsOf(o)
      BY DEF ItemsOf
    <2> QED BY <1>4, <1>7, <1>9, <2>1 DEF ItemsOf
  <1>12. OrderSound(o)'
    <2>1. ASSUME NEW p \in Products
          PROVE  Purchased(kardex'[p], o) = 0
      <3>1. Purchased(kardex[p], o) = 0
        BY <1>2, <1>4 DEF OrderSound
      <3> QED BY <1>1, <3>1
    <2> QED BY <1>5, <1>6, <1>11, <2>1, DraftSound DEF new
  <1>13. \A d \in Served : d = c
    BY <1>1 DEF OrdersSoundInv, UpdatesAlone, UpdatingStates
  <1>14. /\ \A i \in ItemId, x \in Orders : x # o => (item'[i].order = x <=> item[i].order = x)
         /\ \A i \in ItemId : item'[i].order \notin {o, None} => item'[i] = item[i]
    <2>1. \A i \in ItemId : item[i].order = o <=> i \in ItemsOf(o)
      BY DEF ItemsOf
    <2> QED BY <1>7, <1>8, <1>9, <2>1, PurchaseOrdersAssumption
  <1>15. \A i \in ItemId, d \in Clerks : itemLock'[i] = d <=> d # c /\ itemLock[i] = d
    BY <1>1, PurchaseOrdersAssumption, InventoryAssumption DEF ItemsReleased
  <1>16. /\ \A p \in Products : TracksStock(product'[p]) <=> TracksStock(product[p])
         /\ \A x \in Orders, p \in Products : Purchased(kardex'[p], x) = Purchased(kardex[p], x)
         /\ c \in Served /\ End(c, "done")
    BY <1>1
  <1> QED BY <1>2, <1>6, <1>10, <1>12, <1>13, <1>14, <1>15, <1>16, ClerkEnds

\* The commit of a receipt: the kardex gets the units of each product whose item counts
\* them, and the order is RECEIVED only if all its items are complete.
LEMMA CommitReceiveSound ==
    ASSUME NoRacingUpdates, OrdersTypeInv, OrdersTypeInv', OrdersKardexInv, OrdersSoundInv,
           NEW c \in Clerks, CommitReceive(c)
    PROVE  OrdersSoundInv'
  <1>1. /\ c \in Served /\ End(c, "done") /\ clerk[c].pc = "closing"
        /\ item' = ReceivedItems(c) /\ itemLock' = ItemsReleased(c)
    BY DEF CommitReceive, Served
  <1>2. PICK o \in Orders : o = clerk[c].order /\ order[o].status # "none" /\ o # None
    BY <1>1, PurchaseOrdersAssumption DEF OrdersSoundInv, ClerkSound
  <1>3. /\ ReceiptSound(clerk[c], Held(c)) /\ Held(c) \subseteq ItemsOf(o)
        /\ OrderSound(o) /\ FreshItems
    BY <1>1, <1>2 DEF OrdersSoundInv, ClerkSound, ReceivingStates
  <1>4. /\ order \in [Orders -> OrderRow] /\ clerk \in [Clerks -> Clerk] /\ clerk[c] \in Clerk
        /\ \A i \in ItemId : item[i] \in ItemRow
        /\ \A p \in Products : product[p] \in ProductRow /\ kardex[p] \in Seq(Movement)
    BY DEF OrdersTypeInv, OrdersTypeOK, InventoryTypeOK
  <1>5. PICK status \in {"RECEIVED", "PARTIAL_RECEIVED"} :
           /\ order' = [order EXCEPT ![o].status = status]
           /\ status = "RECEIVED" => clerk[c].allReceived
    BY <1>2 DEF CommitReceive
  <1>6. /\ order'[o].status = status /\ order'[o].total = order[o].total
        /\ \A x \in Orders : x # o => order'[x] = order[x]
    BY <1>4, <1>5 DEF OrderRow
  <1> DEFINE got(i) == IF i \in Held(c) THEN clerk[c].now[i] ELSE 0
  <1>7. ASSUME NEW i \in ItemId
        PROVE  /\ item'[i].order = item[i].order /\ item'[i].qtyOrdered = item[i].qtyOrdered
               /\ item'[i].qtyReceived = item[i].qtyReceived + got(i)
               /\ got(i) \in Nat /\ item[i].qtyReceived \in Nat /\ item[i].qtyOrdered \in Nat
               /\ i \notin Held(c) => item'[i] = item[i]
    <2>1. clerk[c].now[i] \in Nat /\ item[i] \in ItemRow
      BY <1>4, PurchaseOrdersAssumption DEF Clerk
    <2>2. CASE itemLock[i] = c
      <3>1. item'[i] = [item[i] EXCEPT !.qtyReceived = @ + clerk[c].now[i]] /\ got(i) = clerk[c].now[i]
              /\ i \in Held(c)
        BY <1>1, <2>2 DEF ReceivedItems, Held
      <3> QED BY <2>1, <3>1 DEF ItemRow
    <2>3. CASE itemLock[i] # c
      <3>1. item'[i] = item[i] /\ got(i) = 0 /\ i \notin Held(c)
        BY <1>1, <2>3 DEF ReceivedItems, Held
      <3> HIDE DEF got
      <3> QED BY <2>1, <3>1 DEF ItemRow
    <2> QED BY <2>2, <2>3
  <1>8. ASSUME NEW p \in Products
        PROVE  TracksStock(product'[p]) <=> TracksStock(product[p])
    <2> DEFINE n == StockReceived(c, p)
               v == product[p].version + Len(clerk[c].rows[p])
    <2>1. product'[p] = [product[p] EXCEPT !.stock = n, !.version = v] \/ product'[p] = product[p]
      BY <1>4 DEF CommitReceive, ProductRow
    <2> HIDE DEF n, v
    <2> QED BY <1>4, <2>1 DEF ProductRow, TracksStock
  <1>9. ASSUME NEW p \in Products, NEW x \in Orders
        PROVE  Purchased(kardex'[p], x) = Purchased(kardex[p], x) + IF x = o THEN clerk[c].add[p] ELSE 0
    <2>1. kardex'[p] = Ahead(clerk[c], p)
      BY DEF CommitReceive, Ahead
    <2>2. CASE lock[p] = c
      <3>1. Purchased(Ahead(clerk[c], p), x) = PurchasedAhead(clerk[c], p, x)
        BY <2>2 DEF OrdersKardexInv, HoldsBack
      <3> QED BY <1>2, <2>1, <3>1 DEF PurchasedAhead
    <2>3. CASE lock[p] # c
      <3>1. clerk[c].rows[p] = <<>> /\ clerk[c].add[p] = 0
        BY <2>3 DEF OrdersKardexInv, HoldsBack
      <3>2. kardex'[p] = kardex[p]
        BY <1>4, <2>1, <3>1, ConcatEmptySeq DEF Ahead
      <3>3. Purchased(kardex[p], x) \in Int
        BY <1>4, PurchasedInt
      <3> QED BY <3>1, <3>2, <3>3
    <2> QED BY <2>2, <2>3
  <1>10. ASSUME NEW p \in Products
         PROVE  /\ Purchased(kardex[p], o) \in Int
                /\ \A x \in Orders : x # o => Purchased(kardex'[p], x) = Purchased(kardex[p], x)
    <2>1. \A x \in Orders : Purchased(kardex[p], x) \in Int
      BY <1>4, PurchasedInt
    <2> QED BY <1>9, <2>1
  <1>11. \A i \in ItemsOf(o) : i \in ItemId /\ ProductOf(i) \in Products
    BY ItemParts DEF ItemsOf
  <1>12. OrderSound(o)'
    <2>1. ItemsOf(o)' = ItemsOf(o)
      BY <1>7 DEF ItemsOf
    <2>2. \A p \in Products : Purchased(kardex[p], o)' = Purchased(kardex[p], o) + clerk[c].add[p]
      <3>1. \A p \in Products : Purchased(kardex'[p], o) = Purchased(kardex[p], o) + clerk[c].add[p]
        BY <1>9
      <3> QED BY <3>1 DEF Purchased, PurchaseRows
    <2>3. ASSUME NEW i \in ItemsOf(o)
          PROVE  /\ order'[o].total[ProductOf(i)] = item'[i].qtyOrdered
                 /\ Purchased(kardex[ProductOf(i)], o)' =
                       IF TracksStock(product[ProductOf(i)])' THEN item'[i].qtyReceived ELSE 0
                 /\ order'[o].status = "RECEIVED" => item'[i].qtyReceived >= item'[i].qtyOrdered
      <3> DEFINE p == ProductOf(i)
      <3>1. i \in ItemId /\ p \in Products
        BY <1>11
      <3>2. clerk[c].add[p] = IF TracksStock(product[p]) THEN got(i) ELSE 0
        BY <1>1, <1>2, <1>3 DEF ReceiptSound, Added
      <3>3. /\ order[o].total[p] = item[i].qtyOrdered
            /\ Purchased(kardex[p], o) = IF TracksStock(product[p]) THEN item[i].qtyReceived ELSE 0
        BY <1>3 DEF OrderSound
      <3>4. clerk[c].allReceived => item[i].qtyReceived + got(i) >= item[i].qtyOrdered
        BY <1>1, <1>2, <1>3 DEF ReceiptSound
      <3>5. /\ item'[i].qtyOrdered = item[i].qtyOrdered
            /\ item'[i].qtyReceived = item[i].qtyReceived + got(i)
            /\ got(i) \in Nat /\ item[i].qtyReceived \in Nat
        BY <1>7, <3>1
      <3>6. Purchased(kardex[p], o)' = Purchased(kardex[p], o) + clerk[c].add[p]
        BY <2>2, <3>1
      <3>7. TracksStock(product[p])' <=> TracksStock(product[p])
        BY <1>8, <3>1 DEF TracksStock
      <3> HIDE DEF got
      <3>8. Purchased(kardex[p], o)' = IF TracksStock(product[p])' THEN item'[i].qtyReceived ELSE 0
        BY <3>2, <3>3, <3>5, <3>6, <3>7
      <3>9. order'[o].status = "RECEIVED" => item'[i].qtyReceived >= item'[i].qtyOrdered
        BY <1>5, <1>6, <3>4, <3>5
      <3> QED BY <1>6, <3>3, <3>5, <3>8, <3>9
    <2>4. ASSUME NEW p \in Products, \A i \in ItemsOf(o) : ProductOf(i) # p
          PROVE  order'[o].total[p] = 0 /\ Purchased(kardex[p], o)' = 0
      <3>1. clerk[c].add[p] = 0
        BY <1>2, <1>3, <2>4 DEF ReceiptSound
      <3>2. order[o].total[p] = 0 /\ Purchased(kardex[p], o) = 0
        BY <1>3, <2>4 DEF OrderSound
      <3> QED BY <1>6, <2>2, <3>1, <3>2
    <2>5. \A i, j \in ItemsOf(o) : ProductOf(i) = ProductOf(j) => i = j
      BY <1>3 DEF OrderSound
    <2>6. order'[o].status \notin {"none", "DRAFT"}
      BY <1>6
    <2> QED BY <2>1, <2>3, <2>4, <2>5, <2>6 DEF OrderSound
  <1>13. FreshItems'
    <2>1. \A d \in Clerks : clerk'[d].pc = IF d = c THEN "done" ELSE clerk[d].pc
      BY <1>1, <1>4, IdleClerkType DEF End
    <2>2. \A x \in Orders \cup Clerks, p \in Products : <<x, p>> \in ItemId
      BY DEF ItemId
    <2> QED BY <1>3, <1>7, <2>1, <2>2 DEF FreshItems
  <1>14. /\ \A i \in ItemId, x \in Orders : x # o => (item'[i].order = x <=> item[i].order = x)
         /\ \A i \in ItemId : item'[i].order \notin {o, None} => item'[i] = item[i]
    <2>1. \A i \in Held(c) : item[i].order = o
      BY <1>3 DEF ItemsOf
    <2> QED BY <1>7, <2>1
  <1>15. \A i \in ItemId, d \in Clerks : itemLock'[i] = d <=> d # c /\ itemLock[i] = d
    BY <1>1, PurchaseOrdersAssumption, InventoryAssumption DEF ItemsReleased
  <1>16. \A d \in Served : d # c => clerk[d].pc \notin UpdatingStates
    BY <1>1 DEF OrdersSoundInv, UpdatesAlone, Served
  <1>17. \A i \in ItemsOf(o) : /\ item'[i].qtyOrdered = item[i].qtyOrdered
                               /\ item'[i].qtyReceived >= item[i].qtyReceived
    <2> SUFFICES ASSUME NEW i \in ItemsOf(o)
                 PROVE  item'[i].qtyOrdered = item[i].qtyOrdered /\ item'[i].qtyReceived >= item[i].qtyReceived
      OBVIOUS
    <2>1. /\ item'[i].qtyOrdered = item[i].qtyOrdered
          /\ item'[i].qtyReceived = item[i].qtyReceived + got(i)
          /\ got(i) \in Nat /\ item[i].qtyReceived \in Nat
      BY <1>7, <1>11
    <2> HIDE DEF got
    <2> QED BY <2>1
  <1>18. \A i \in ItemId : item'[i].order = o <=> item[i].order = o
    BY <1>7
  <1>19. c \in Served /\ End(c, "done") /\ order'[o].status \notin {"none", "DRAFT"}
    BY <1>1, <1>6
  <1>20. /\ \A p \in Products : TracksStock(product'[p]) <=> TracksStock(product[p])
         /\ \A x \in Orders, p \in Products : x # o => Purchased(kardex'[p], x) = Purchased(kardex[p], x)
    BY <1>8, <1>10
  <1> QED BY <1>2, <1>6, <1>12, <1>13, <1>14, <1>15, <1>16, <1>17, <1>18, <1>19, <1>20, ClerkEnds

\* The orders a behaviour starts with are as create and confirm leave them.
LEMMA OrdersInitSound ==
    ASSUME OrdersAloneInit
    PROVE  OrdersSoundInv
  <1>1. PICK status \in [Orders -> OpeningStatus], lines \in [Orders -> OrderLines \ {NoLines}] :
           /\ order = [o \in Orders |-> [status |-> status[o],
                 total |-> IF status[o] = "none" THEN NoLines ELSE lines[o]]]
           /\ item = [i \in ItemId |->
                 IF i[1] \in Orders /\ status[i[1]] # "none" /\ lines[i[1]][i[2]] > 0
                 THEN [order |-> i[1], qtyOrdered |-> lines[i[1]][i[2]], qtyReceived |-> 0]
                 ELSE NoItem]
    BY DEF OrdersAloneInit, OrdersInit
  <1>2. /\ \A c \in Clerks : clerk[c] = IdleClerk /\ clerk[c].pc = "idle"
        /\ \A c \in Clerks : Held(c) = {}
    BY IdleClerkType, PurchaseOrdersAssumption, InventoryAssumption
    DEF OrdersAloneInit, OrdersInit, Held
  <1>3. Served = {}
    BY <1>2 DEF Served
  <1>4. UpdatesAlone /\ CreatesAlone /\ \A c \in Clerks : ClerkSound(clerk[c], Held(c))
    BY <1>2, <1>3, FS_EmptySet
    DEF UpdatesAlone, CreatesAlone, ClerkSound, UpdatingStates, ReceivingStates
  <1>5. NoItem.order = None /\ None \notin Orders
    BY PurchaseOrdersAssumption DEF NoItem
  <1> DEFINE lined(i) == i[1] \in Orders /\ status[i[1]] # "none" /\ lines[i[1]][i[2]] > 0
  <1>6. ASSUME NEW i \in ItemId
        PROVE  /\ lined(i) => /\ item[i].order = i[1] /\ item[i].qtyReceived = 0
                              /\ item[i].qtyOrdered = lines[i[1]][i[2]]
               /\ ~lined(i) => item[i].order = None
    <2>1. lined(i) => item[i] = [order |-> i[1], qtyOrdered |-> lines[i[1]][i[2]], qtyReceived |-> 0]
      BY <1>1
    <2>2. ~lined(i) => item[i] = NoItem
      BY <1>1
    <2> HIDE DEF lined
    <2> QED BY <1>5, <2>1, <2>2
  <1>7. FreshItems
    <2>1. \A x \in Orders \cup Clerks, p \in Products : <<x, p>> \in ItemId /\ <<x, p>>[1] = x
      BY DEF ItemId
    <2>2. \A c \in Clerks : c \notin Orders
      BY PurchaseOrdersAssumption
    <2> QED BY <1>6, <2>1, <2>2 DEF FreshItems
  <1>8. ASSUME NEW p \in Products, NEW o \in Orders
        PROVE  Purchased(kardex[p], o) = 0
    <2>1. kardex[p] = <<MovementRow("PURCHASE", 0, product[p].stock, None)>> \/ kardex[p] = <<>>
      BY DEF OrdersAloneInit, InventoryInit
    <2>2. \A j \in DOMAIN kardex[p] : kardex[p][j].source = None
      BY <2>1 DEF MovementRow
    <2>3. PurchaseRows(kardex[p], o) = {}
      BY <1>5, <2>2 DEF PurchaseRows
    <2> QED BY <2>3, SumEmpty DEF Purchased
  <1>9. ASSUME NEW o \in Orders PROVE OrderSound(o)
    <2>1. \A i \in ItemsOf(o) : /\ i \in ItemId /\ lined(i) /\ i[1] = o
      BY <1>5, <1>6 DEF ItemsOf
    <2>2. \A i \in ItemsOf(o) : /\ i = <<o, ProductOf(i)>> /\ ProductOf(i) = i[2] /\ ProductOf(i) \in Products
      BY <2>1 DEF ItemId, ProductOf
    <2>3. \A i \in ItemsOf(o) : /\ item[i].qtyReceived = 0 /\ item[i].qtyOrdered = lines[o][ProductOf(i)]
                                /\ status[o] # "none"
      BY <1>6, <2>1, <2>2
    <2>4. /\ order[o].total = (IF status[o] = "none" THEN NoLines ELSE lines[o])
          /\ order[o].status = status[o] /\ status[o] \in {"none", "DRAFT", "PENDING"}
      BY <1>1, PurchaseOrdersAssumption
    <2>5. ASSUME NEW p \in Products, \A i \in ItemsOf(o) : ProductOf(i) # p
          PROVE  order[o].total[p] = 0
      <3>1. <<o, p>> \in ItemId /\ <<o, p>>[1] = o /\ <<o, p>>[2] = p /\ ProductOf(<<o, p>>) = p
        BY DEF ItemId, ProductOf
      <3>2. <<o, p>> \notin ItemsOf(o)
        BY <2>5, <3>1
      <3>3. ~lined(<<o, p>>)
        BY <1>6, <3>1, <3>2 DEF ItemsOf
      <3>4. lines[o][p] \in 0..MaxOrdered
        BY DEF OrderLines
      <3>5. status[o] # "none" => lines[o][p] = 0
        BY <3>1, <3>3, <3>4, PurchaseOrdersAssumption
      <3> QED BY <2>4, <3>5 DEF NoLines
    <2> QED BY <1>8, <2>2, <2>3, <2>4, <2>5 DEF OrderSound
  <1> QED BY <1>4, <1>7, <1>9 DEF OrdersSoundInv

\* An order whose items are sound has the sums of its items.
LEMMA SoundSums ==
    ASSUME OrdersTypeInv, NEW o \in Orders, OrderSound(o), NEW p \in Products
    PROVE  /\ order[o].total[p] = SumFunctionOnSet(QtyOrdered, ItemsFor(o, p))
           /\ SumFunctionOnSet(Moved(p), MovementsOf(p, "PURCHASE", o))
                 = IF TracksStock(product[p]) THEN SumFunctionOnSet(QtyReceived, ItemsFor(o, p)) ELSE 0
  <1>1. SumFunctionOnSet(Moved(p), MovementsOf(p, "PURCHASE", o)) = Purchased(kardex[p], o)
    BY DEF Purchased, PurchaseRows, Moved, MovementsOf
  <1>2. CASE \E i \in ItemsOf(o) : ProductOf(i) = p
    <2>1. PICK i \in ItemsOf(o) : ProductOf(i) = p
      BY <1>2
    <2>2. ItemsFor(o, p) = {i} /\ i \in ItemId
      BY <2>1 DEF OrderSound, ItemsFor, ItemsOf
    <2>3. item[i] \in ItemRow
      BY <2>2 DEF OrdersTypeInv, OrdersTypeOK
    <2>4. /\ QtyOrdered[i] = item[i].qtyOrdered /\ QtyReceived[i] = item[i].qtyReceived
          /\ QtyOrdered[i] \in Int /\ QtyReceived[i] \in Int
      BY <2>2, <2>3 DEF QtyOrdered, QtyReceived, ItemRow
    <2>5. /\ SumFunctionOnSet(QtyOrdered, {i}) = item[i].qtyOrdered
          /\ SumFunctionOnSet(QtyReceived, {i}) = item[i].qtyReceived
      BY <2>4, SumOne
    <2> QED BY <1>1, <2>1, <2>2, <2>5 DEF OrderSound
  <1>3. CASE \A i \in ItemsOf(o) : ProductOf(i) # p
    <2>1. ItemsFor(o, p) = {}
      BY <1>3 DEF ItemsFor
    <2> QED BY <1>1, <1>3, <2>1, SumEmpty DEF OrderSound
  <1> QED BY <1>2, <1>3

\* Every step of the service keeps its orders sound.
LEMMA OrdersStepSound ==
    ASSUME NoRacingUpdates, OrdersTypeInv, OrdersTypeInv', OrdersKardexInv, OrdersSoundInv, OrdersNext
    PROVE  OrdersSoundInv'
  BY OpenSound, OpenReceiveSound, RefusedSound, UpdateSound, ReceiptStepSound, StatusSound, CreateSound,
     CommitUpdateSound, CommitReceiveSound
  DEF OrdersNext, ClerkStep

\* So does a step of others.
LEMMA OrdersStutterSound ==
    ASSUME OrdersTypeInv, OrdersTypeInv', OrdersSoundInv, UNCHANGED OrdersVars
    PROVE  OrdersSoundInv'
  <1>1. UNCHANGED <<product, kardex, order, item, itemLock, clerk>>
    BY DEF OrdersVars, inventoryVars, ordersVars
  <1>2. UpdatesAlone' /\ CreatesAlone' /\ FreshItems'
    BY <1>1 DEF OrdersSoundInv, UpdatesAlone, CreatesAlone, FreshItems, Served
  <1>3. ASSUME NEW o \in Orders PROVE OrderSound(o)'
    <2>1. OrderSound(o)
      BY DEF OrdersSoundInv
    <2>2. ItemsOf(o)' = ItemsOf(o) /\ \A p \in Products : Purchased(kardex[p], o)' = Purchased(kardex[p], o)
      BY <1>1 DEF ItemsOf, Purchased, PurchaseRows
    <2> QED BY <1>1, <2>1, <2>2 DEF OrderSound, TracksStock
  <1>4. ASSUME NEW d \in Clerks PROVE ClerkSound(clerk[d], Held(d))'
    <2>1. \A i \in ItemId : item[i] \in ItemRow
      BY DEF OrdersTypeInv, OrdersTypeOK
    <2>2. ClerkSound(clerk[d], Held(d))
      BY DEF OrdersSoundInv
    <2>3. clerk[d].pc \in UpdatingStates => order[clerk[d].order].status = "DRAFT"
      BY <2>2 DEF ClerkSound
    <2>4. \A i \in ItemId : item'[i].qtyOrdered = item[i].qtyOrdered
                             /\ item'[i].qtyReceived >= item[i].qtyReceived
      BY <1>1, <2>1 DEF ItemRow
    <2> QED BY <1>1, <2>2, <2>3, <2>4, StillSound DEF TracksStock, ItemsOf
  <1> QED BY <1>2, <1>3, <1>4 DEF OrdersSoundInv

\* Where no update races, whatever else does, the items stay sound.
LEMMA OrdersStaySound ==
    ASSUME NoRacingUpdates
    PROVE  OrdersSpec => [](OrdersTypeInv /\ OrdersSoundInv)
  <1> DEFINE Inv == OrdersTypeInv /\ OrdersKardexInv /\ OrdersSoundInv
  <1>1. OrdersAloneInit => Inv
    BY OrdersKardexInit, OrdersInitSound
  <1>2. Inv /\ [OrdersNext]_OrdersVars => Inv'
    <2> SUFFICES ASSUME OrdersTypeInv, OrdersKardexInv, OrdersSoundInv, [OrdersNext]_OrdersVars
                 PROVE  Inv'
      OBVIOUS
    <2>1. OrdersTypeInv' /\ OrdersKardexInv'
      BY OrdersKardexStep
    <2>2. CASE OrdersNext
      BY <2>1, <2>2, OrdersStepSound
    <2>3. CASE UNCHANGED OrdersVars
      BY <2>1, <2>3, OrdersStutterSound
    <2> QED BY <2>2, <2>3
  <1> QED BY <1>1, <1>2, PTL DEF OrdersSpec

\* What the kardex received for an order is what its items count, however receipts,
\* confirmations and cancellations race, where no update does.
THEOREM ReceiptsFollowKardex ==
    ASSUME NoRacingUpdates
    PROVE  OrdersSpec => []ReceiptsMatchKardex
  <1>1. ASSUME OrdersTypeInv, OrdersSoundInv PROVE ReceiptsMatchKardex
    <2>1. \A o \in Orders : OrderSound(o)
      BY <1>1 DEF OrdersSoundInv
    <2> QED BY <1>1, <2>1, SoundSums DEF ReceiptsMatchKardex
  <1> QED BY <1>1, OrdersStaySound, PTL

\* The totals of an order are those of its items, where no update races another.
THEOREM TotalsFollowItems ==
    ASSUME NoRacingUpdates
    PROVE  OrdersSpec => []TotalsMatchItems
  <1>1. ASSUME OrdersTypeInv, OrdersSoundInv PROVE TotalsMatchItems
    <2>1. \A o \in Orders : OrderSound(o)
      BY <1>1 DEF OrdersSoundInv
    <2> QED BY <1>1, <2>1, SoundSums DEF TotalsMatchItems
  <1> QED BY <1>1, OrdersStaySound, PTL

\* No order is RECEIVED with an item that still waits, though each receipt decides from
\* what it can see of the others.
THEOREM ReceivedIsComplete ==
    ASSUME NoRacingUpdates
    PROVE  OrdersSpec => []ReceivedMeansComplete
  <1>1. ASSUME OrdersSoundInv PROVE ReceivedMeansComplete
    BY <1>1 DEF OrdersSoundInv, OrderSound, ReceivedMeansComplete
  <1> QED BY <1>1, OrdersStaySound, PTL

-----------------------------------------------------------------------------
(* The purchase book *)

\* An order that is being created is nobody else's.
CreatesFirst ==
    \A c, d \in Clerks :
        clerk[c].pc = "creating" /\ d \in Served /\ clerk[d].order = clerk[c].order => c = d

\* Nothing came in for an order that is not confirmed.
OrderKnown(o) ==
    /\ order[o].status = "none" => ItemsOf(o) = {}
    /\ order[o].status \in {"none", "DRAFT"} => \A i \in ItemsOf(o) : item[i].qtyReceived = 0
    /\ \A p \in Products : IsFiniteSet(ItemsFor(o, p))

\* The items of p among some.
OfProduct(items, p) == {i \in items : ProductOf(i) = p}

\* The item a receipt has under way.
UnderWay(local) == IF local.pc \in {"checked", "writing", "counting"} THEN {local.current} ELSE {}

\* A receipt has every item it was asked for ahead of it, under way or behind it, and
\* its stock increments are the units of those whose product it wrote.
ReceiptKnown(local, held) ==
    /\ order[local.order].status \notin {"none", "DRAFT"}
    /\ local.todo \cap held = {}
    /\ UnderWay(local) \cap (local.todo \cup held) = {}
    /\ \A i \in ItemId : local.now[i] > 0 <=> i \in local.todo \cup held \cup UnderWay(local)
    /\ \E i \in ItemId : local.now[i] > 0
    /\ \A p \in Products :
          /\ IsFiniteSet(OfProduct(Added(local, held), p))
          /\ local.add[p] = IF TracksStock(product[p])
                            THEN SumFunctionOnSet(local.now, OfProduct(Added(local, held), p)) ELSE 0
    /\ local.pc = "closing" => local.todo = {}

\* What a request that holds these items knows of its order, whoever else works on it.
ClerkKnown(local, held) ==
    LET o == local.order IN
    /\ local.pc \notin {"idle", "done", "refused"}
          => o \in Orders /\ (order[o].status = "none" <=> local.pc = "creating")
    /\ local.pc \in {"creating"} \cup UpdatingStates => local.lines # NoLines
    /\ held # {} => local.pc \in ReceivingStates \cup {"inserting"} /\ held \subseteq ItemsOf(o)
    /\ local.pc \in ReceivingStates => ReceiptKnown(local, held)

OrdersKnownInv ==
    /\ CreatesFirst /\ FreshItems
    /\ \A o \in Orders : OrderKnown(o)
    /\ \A c \in Clerks : ClerkKnown(clerk[c], Held(c))

\* What a request knows stays true when others leave the items it holds in its order,
\* and do not take the order back.
LEMMA StillKnown ==
    ASSUME OrdersTypeInv, NEW d \in Clerks, ClerkKnown(clerk[d], Held(d)), clerk'[d] = clerk[d],
           \A i \in ItemId : itemLock'[i] = d <=> itemLock[i] = d,
           \A p \in Products : TracksStock(product'[p]) <=> TracksStock(product[p]),
           d \in Served =>
              LET o == clerk[d].order IN
              /\ order[o].status = "none" <=> order'[o].status = "none"
              /\ order[o].status \notin {"none", "DRAFT"} => order'[o].status \notin {"none", "DRAFT"}
              /\ \A i \in Held(d) : item[i].order = o => item'[i].order = o
    PROVE  ClerkKnown(clerk[d], Held(d))'
  <1> DEFINE o == clerk[d].order
  <1>1. Held(d)' = Held(d) /\ clerk'[d] = clerk[d] /\ Held(d) \subseteq ItemId
    BY DEF Held
  <1>2. CASE d \notin Served
    <2>1. Held(d) = {} /\ clerk[d].pc \in {"idle", "done", "refused"}
      BY <1>2 DEF Served, ClerkKnown, ReceivingStates
    <2> QED BY <1>1, <2>1 DEF ClerkKnown, UpdatingStates, ReceivingStates
  <1>3. CASE d \in Served
    <2>1. Held(d) # {} => Held(d) \subseteq ItemsOf(clerk[d].order)'
      <3>1. Held(d) # {} => Held(d) \subseteq ItemsOf(o)
        BY DEF ClerkKnown
      <3> QED BY <1>1, <1>3, <3>1 DEF ItemsOf
    <2>2. ASSUME clerk[d].pc \in ReceivingStates
          PROVE  ReceiptKnown(clerk[d], Held(d))'
      <3>1. ReceiptKnown(clerk[d], Held(d))
        BY <2>2 DEF ClerkKnown
      <3>2. \A p \in Products :
               /\ OfProduct(Added(clerk[d], Held(d)), p)' = OfProduct(Added(clerk[d], Held(d)), p)
               /\ TracksStock(product[p])' <=> TracksStock(product[p])
        BY <1>1 DEF OfProduct, Added, TracksStock
      <3>3. UnderWay(clerk[d])' = UnderWay(clerk[d])
        BY <1>1 DEF UnderWay
      <3> QED BY <1>1, <1>3, <3>1, <3>2, <3>3 DEF ReceiptKnown
    <2> QED BY <1>1, <1>3, <2>1, <2>2 DEF ClerkKnown, UpdatingStates, ReceivingStates, Served
  <1> QED BY <1>2, <1>3

\* A step that leaves the products, the orders and the items alone: one request goes on,
\* with other items in hand.
LEMMA KnownGoesOn ==
    ASSUME OrdersTypeInv, OrdersKnownInv, NEW c \in Clerks, NEW local,
           clerk' = [clerk EXCEPT ![c] = local], clerk[c].pc # "done",
           UNCHANGED <<product, order, item>>,
           NEW held, Held(c)' = held, ClerkKnown(local, held),
           \A d \in Clerks : d # c => \A i \in ItemId : itemLock'[i] = d <=> itemLock[i] = d,
           local.pc = "creating" => \A d \in Served : clerk[d].order # local.order
    PROVE  OrdersKnownInv'
  <1>1. \A d \in Clerks : clerk'[d] = IF d = c THEN local ELSE clerk[d]
    BY DEF OrdersTypeInv, OrdersTypeOK
  <1>2. CreatesFirst'
    <2> SUFFICES ASSUME NEW d \in Clerks, NEW e \in Served', clerk'[d].pc = "creating",
                        clerk'[e].order = clerk'[d].order
                 PROVE  d = e
      BY DEF CreatesFirst
    <2>1. e \in Clerks /\ clerk'[e].pc \notin {"idle", "done", "refused"}
      BY DEF Served
    <2>2. CASE d # c /\ e = c
      <3>1. order[local.order].status = "none"
        BY <1>1, <2>2 DEF OrdersKnownInv, ClerkKnown
      <3>2. local.pc = "creating"
        BY <1>1, <2>1, <2>2, <3>1 DEF ClerkKnown
      <3>3. d \in Served
        BY <1>1, <2>2 DEF Served
      <3> QED BY <1>1, <2>2, <3>2, <3>3
    <2>3. CASE d = c /\ e # c
      <3>1. e \in Served
        BY <1>1, <2>1, <2>3 DEF Served
      <3> QED BY <1>1, <2>3, <3>1
    <2>4. CASE d # c /\ e # c
      <3>1. e \in Served
        BY <1>1, <2>1, <2>4 DEF Served
      <3> QED BY <1>1, <2>1, <2>4, <3>1 DEF OrdersKnownInv, CreatesFirst
    <2> QED BY <2>2, <2>3, <2>4
  <1>3. FreshItems'
    BY <1>1 DEF OrdersKnownInv, FreshItems
  <1>4. ASSUME NEW o \in Orders PROVE OrderKnown(o)'
    <2>1. OrderKnown(o)
      BY DEF OrdersKnownInv
    <2>2. ItemsOf(o)' = ItemsOf(o) /\ \A p \in Products : ItemsFor(o, p)' = ItemsFor(o, p)
      BY DEF ItemsOf, ItemsFor
    <2> QED BY <2>1, <2>2 DEF OrderKnown
  <1>5. ASSUME NEW d \in Clerks PROVE ClerkKnown(clerk[d], Held(d))'
    <2>1. CASE d = c
      <3>1. clerk'[c] = local /\ Held(c)' = held
        BY <1>1
      <3>2. ItemsOf(clerk[c].order)' = ItemsOf(local.order) /\ UnderWay(clerk[c])' = UnderWay(local)
            /\ \A p \in Products :
                  /\ OfProduct(Added(clerk[c], Held(c)), p)' = OfProduct(Added(local, held), p)
                  /\ TracksStock(product[p])' <=> TracksStock(product[p])
        BY <3>1 DEF ItemsOf, UnderWay, OfProduct, Added, TracksStock
      <3>3. ReceiptKnown(local, held) => ReceiptKnown(clerk[c], Held(c))'
        BY <3>1, <3>2 DEF ReceiptKnown
      <3> QED BY <2>1, <3>1, <3>2, <3>3 DEF ClerkKnown, UpdatingStates, ReceivingStates
    <2>2. CASE d # c
      <3>1. clerk'[d] = clerk[d] /\ ClerkKnown(clerk[d], Held(d))
        BY <1>1, <2>2 DEF OrdersKnownInv
      <3>2. \A i \in ItemId : itemLock'[i] = d <=> itemLock[i] = d
        BY <2>2
      <3> QED BY <3>1, <3>2, StillKnown
    <2> QED BY <2>1, <2>2
  <1> QED BY <1>2, <1>3, <1>4, <1>5 DEF OrdersKnownInv

\* A request that opens holds no item and has added nothing.
LEMMA NothingHeld ==
    ASSUME OrdersTypeInv, OrdersKardexInv, OrdersKnownInv, NEW c \in Clerks,
           clerk[c].pc \notin ReceivingStates \cup {"inserting"}
    PROVE  Held(c) = {} /\ \A p \in Products : clerk[c].add[p] = 0
  <1>1. Held(c) = {}
    BY DEF OrdersKnownInv, ClerkKnown
  <1>2. \A p \in Products : clerk[c].add[p] = 0
    BY DEF OrdersKardexInv, HoldsBack
  <1> QED BY <1>1, <1>2

\* Requests that open have read the order as it is.
LEMMA OpenKnown ==
    ASSUME OrdersTypeInv, OrdersKardexInv, OrdersKnownInv, NEW c \in Clerks, NEW o \in Orders,
           OpenCreate(c, o) \/ OpenUpdate(c, o) \/ OpenConfirm(c, o) \/ OpenCancel(c, o)
    PROVE  OrdersKnownInv'
  <1>0. clerk[c] \in Clerk /\ clerk \in [Clerks -> Clerk]
    BY DEF OrdersTypeInv, OrdersTypeOK
  <1>1. PICK local : /\ clerk' = [clerk EXCEPT ![c] = local] /\ local.order = o
                     /\ local.pc \in {"creating", "replacing", "confirming", "cancelling"}
                     /\ local.pc = "creating" => /\ order[o].status = "none"
                                                 /\ \A d \in Served : clerk[d].order # o
                     /\ local.pc # "creating" => order[o].status # "none"
                     /\ local.pc \in {"creating", "replacing"} => local.lines # NoLines
    <2>1. CASE OpenCreate(c, o) \/ OpenUpdate(c, o)
      <3>1. PICK pc \in {"creating", "replacing"}, lines \in OrderLines :
               /\ clerk' = [clerk EXCEPT ![c].pc = pc, ![c].order = o, ![c].lines = lines]
               /\ lines # NoLines
               /\ pc = "creating" => order[o].status = "none" /\ \A d \in Served : clerk[d].order # o
               /\ pc = "replacing" => order[o].status # "none"
        BY <2>1 DEF OpenCreate, OpenUpdate, Editable, Purchasable
      <3> DEFINE local == [clerk[c] EXCEPT !.pc = pc, !.order = o, !.lines = lines]
      <3>2. clerk' = [clerk EXCEPT ![c] = local]
        BY <1>0, <3>1
      <3>3. local.pc = pc /\ local.order = o /\ local.lines = lines
        BY <1>0 DEF Clerk
      <3> HIDE DEF local
      <3> QED BY <3>1, <3>2, <3>3
    <2>2. CASE OpenConfirm(c, o) \/ OpenCancel(c, o)
      <3>1. PICK pc \in {"confirming", "cancelling"} :
               clerk' = [clerk EXCEPT ![c].pc = pc, ![c].order = o]
        BY <2>2 DEF OpenConfirm, OpenCancel
      <3> DEFINE local == [clerk[c] EXCEPT !.pc = pc, !.order = o]
      <3>2. clerk' = [clerk EXCEPT ![c] = local]
        BY <1>0, <3>1
      <3>3. local.pc = pc /\ local.order = o
        BY <1>0 DEF Clerk
      <3>4. order[o].status # "none"
        BY <2>2 DEF OpenConfirm, OpenCancel, Confirmable, Cancellable
      <3> HIDE DEF local
      <3> QED BY <3>2, <3>3, <3>4
    <2> QED BY <2>1, <2>2
  <1>2. UNCHANGED <<product, order, item, itemLock>> /\ clerk[c].pc = "idle"
    BY DEF OpenCreate, OpenUpdate, OpenConfirm, OpenCancel, Ready, inventoryVars
  <1>3. Held(c)' = {}
    BY <1>2, NothingHeld DEF ReceivingStates, Held
  <1>4. ClerkKnown(local, {})
    BY <1>1 DEF ClerkKnown, UpdatingStates, ReceivingStates
  <1> QED BY <1>1, <1>2, <1>3, <1>4, KnownGoesOn

\* Requests that are refused or fail: their items are free again.
LEMMA RefusedKnown ==
    ASSUME OrdersTypeInv, OrdersKardexInv, OrdersKnownInv, NEW c \in Clerks,
           RefuseWrite(c) \/ AbortClerk(c) \/ \E o \in Orders : RefuseClerk(c, o)
    PROVE  OrdersKnownInv'
  <1>0. None \notin Clerks
    BY PurchaseOrdersAssumption, InventoryAssumption
  <1>1. UNCHANGED <<product, order, item>> /\ End(c, "refused") /\ clerk[c].pc # "done"
    <2>1. CASE RefuseWrite(c) \/ AbortClerk(c)
      BY <2>1 DEF RefuseWrite, AbortClerk, Served
    <2>2. CASE \E o \in Orders : RefuseClerk(c, o)
      BY <2>2 DEF RefuseClerk, inventoryVars, Ready
    <2> QED BY <2>1, <2>2
  <1>2. itemLock' = ItemsReleased(c) \/ (itemLock' = itemLock /\ clerk[c].pc = "idle")
    BY DEF RefuseWrite, AbortClerk, RefuseClerk, Ready
  <1>3. PICK local \in Clerk : clerk' = [clerk EXCEPT ![c] = local] /\ local.pc = "refused"
    BY <1>1, EndsWithNothing
  <1>4. Held(c)' = {} /\ \A d \in Clerks : d # c => \A i \in ItemId : itemLock'[i] = d <=> itemLock[i] = d
    <2>1. CASE itemLock' = ItemsReleased(c)
      BY <1>0, <2>1 DEF ItemsReleased, Held
    <2>2. CASE itemLock' = itemLock /\ clerk[c].pc = "idle"
      <3>1. Held(c) = {}
        BY <2>2, NothingHeld DEF ReceivingStates
      <3> QED BY <2>2, <3>1 DEF Held
    <2> QED BY <1>2, <2>1, <2>2
  <1>5. ClerkKnown(local, {})
    BY <1>3 DEF ClerkKnown, UpdatingStates, ReceivingStates
  <1> QED BY <1>1, <1>3, <1>4, <1>5, KnownGoesOn

\* An update selects the items of its order, and locks those that are still there.
LEMMA UpdateKnown ==
    ASSUME OrdersTypeInv, OrdersKardexInv, OrdersKnownInv, NEW c \in Clerks,
           SelectItems(c) \/ DeleteItems(c)
    PROVE  OrdersKnownInv'
  <1>0. clerk[c] \in Clerk /\ clerk \in [Clerks -> Clerk]
    BY DEF OrdersTypeInv, OrdersTypeOK
  <1> DEFINE o == clerk[c].order
  <1>1. clerk[c].pc \in {"replacing", "deleting"} /\ UNCHANGED <<product, order, item>>
    BY DEF SelectItems, DeleteItems, inventoryVars
  <1>2. /\ Held(c) = {} /\ o \in Orders /\ order[o].status # "none" /\ clerk[c].lines # NoLines
    BY <1>1, NothingHeld DEF OrdersKnownInv, ClerkKnown, UpdatingStates, ReceivingStates
  <1>3. ASSUME NEW local, clerk' = [clerk EXCEPT ![c] = local], local.order = o,
               local.pc \in {"deleting", "inserting"}, local.lines = clerk[c].lines,
               NEW held, Held(c)' = held, held # {} => local.pc = "inserting" /\ held \subseteq ItemsOf(o),
               \A d \in Clerks : d # c => \A i \in ItemId : itemLock'[i] = d <=> itemLock[i] = d
        PROVE  OrdersKnownInv'
    <2>1. ClerkKnown(local, held)
      BY <1>2, <1>3 DEF ClerkKnown, UpdatingStates, ReceivingStates
    <2> QED BY <1>1, <1>3, <2>1, KnownGoesOn
  <1>4. CASE SelectItems(c)
    <2> DEFINE local == [clerk[c] EXCEPT !.pc = "deleting", !.todo = ItemsOf(clerk[c].order)]
    <2>1. clerk' = [clerk EXCEPT ![c] = local]
      BY <1>0, <1>4 DEF SelectItems
    <2>2. local.pc = "deleting" /\ local.order = o /\ local.lines = clerk[c].lines
      BY <1>0 DEF Clerk
    <2> HIDE DEF local
    <2>3. Held(c)' = {} /\ itemLock' = itemLock
      BY <1>2, <1>4 DEF SelectItems, Held
    <2> QED BY <1>3, <2>1, <2>2, <2>3
  <1>5. CASE DeleteItems(c)
    <2> DEFINE local == [clerk[c] EXCEPT !.pc = "inserting"]
               victims == clerk[c].todo \cap ItemsOf(o)
    <2>1. clerk' = [clerk EXCEPT ![c] = local]
      BY <1>0, <1>5 DEF DeleteItems
    <2>2. local.pc = "inserting" /\ local.order = o /\ local.lines = clerk[c].lines
      BY <1>0 DEF Clerk
    <2> HIDE DEF local
    <2>3. /\ itemLock' = [i \in ItemId |-> IF i \in victims THEN c ELSE itemLock[i]]
          /\ \A i \in victims : itemLock[i] = None
      BY <1>5 DEF DeleteItems
    <2>4. victims \subseteq ItemsOf(o) /\ victims \subseteq ItemId
      BY DEF ItemsOf
    <2> HIDE DEF victims
    <2>5. Held(c)' = victims
      BY <1>2, <2>3, <2>4 DEF Held
    <2>6. \A d \in Clerks : d # c => \A i \in ItemId : itemLock'[i] = d <=> itemLock[i] = d
      BY <2>3, PurchaseOrdersAssumption, InventoryAssumption
    <2> QED BY <1>3, <2>1, <2>2, <2>4, <2>5, <2>6
  <1> QED BY <1>4, <1>5

\* A receipt opens with the items it was asked for ahead of it, at least one of them.
LEMMA OpenReceiveKnown ==
    ASSUME OrdersTypeInv, OrdersKardexInv, OrdersKnownInv, NEW c \in Clerks, NEW o \in Orders,
           OpenReceive(c, o)
    PROVE  OrdersKnownInv'
  <1>0. clerk[c] \in Clerk /\ clerk \in [Clerks -> Clerk]
    BY DEF OrdersTypeInv, OrdersTypeOK
  <1>1. PICK now \in [ItemsOf(o) -> 0..MaxOrdered] :
           /\ clerk' = [clerk EXCEPT ![c].pc = "receiving", ![c].order = o,
                 ![c].todo = {i \in ItemsOf(o) : now[i] > 0},
                 ![c].now = [i \in ItemId |-> IF i \in {j \in ItemsOf(o) : now[j] > 0} THEN now[i] ELSE 0]]
           /\ {i \in ItemsOf(o) : now[i] > 0} # {}
    BY DEF OpenReceive
  <1> DEFINE chosen == {i \in ItemsOf(o) : now[i] > 0}
             units == [i \in ItemId |-> IF i \in chosen THEN now[i] ELSE 0]
             local == [clerk[c] EXCEPT !.pc = "receiving", !.order = o, !.todo = chosen, !.now = units]
  <1>2. clerk' = [clerk EXCEPT ![c] = local]
    BY <1>0, <1>1
  <1>3. chosen # {} /\ chosen \subseteq ItemId /\ \A i \in ItemId : units[i] > 0 <=> i \in chosen
    <2>1. chosen # {} /\ chosen \subseteq ItemId /\ \A i \in chosen : now[i] > 0
      BY <1>1 DEF ItemsOf
    <2>2. \A i \in ItemId : units[i] = IF i \in chosen THEN now[i] ELSE 0
      OBVIOUS
    <2> HIDE DEF chosen, units
    <2> QED BY <2>1, <2>2
  <1> HIDE DEF chosen, units
  <1>4. /\ local.pc = "receiving" /\ local.order = o /\ local.todo = chosen /\ local.now = units
        /\ local.add = clerk[c].add
    BY <1>0 DEF Clerk
  <1> HIDE DEF local
  <1>5. /\ UNCHANGED <<product, order, item, itemLock>> /\ clerk[c].pc = "idle"
        /\ order[o].status \in {"PENDING", "PARTIAL_RECEIVED"}
    BY DEF OpenReceive, Receivable, Ready, inventoryVars
  <1>6. Held(c)' = {} /\ \A p \in Products : local.add[p] = 0
    BY <1>4, <1>5, NothingHeld DEF ReceivingStates, Held
  <1>7. ReceiptKnown(local, {})
    <2>1. \A p \in Products : OfProduct(Added(local, {}), p) = {}
      BY <1>4 DEF OfProduct, Added
    <2>2. IsFiniteSet({}) /\ SumFunctionOnSet(local.now, {}) = 0
      BY FS_EmptySet, SumEmpty
    <2>3. UnderWay(local) = {}
      BY <1>4 DEF UnderWay
    <2> QED BY <1>3, <1>4, <1>5, <1>6, <2>1, <2>2, <2>3 DEF ReceiptKnown
  <1>8. ClerkKnown(local, {})
    BY <1>4, <1>5, <1>7 DEF ClerkKnown, UpdatingStates, ReceivingStates
  <1> QED BY <1>2, <1>4, <1>5, <1>6, <1>8, KnownGoesOn

\* The items of p behind a receipt, after it put one more behind it.
LEMMA OneMoreAdded ==
    ASSUME NEW items, NEW j, NEW p, IsFiniteSet(OfProduct(items, p))
    PROVE  /\ IsFiniteSet(OfProduct(items \cup {j}, p))
           /\ ProductOf(j) = p => OfProduct(items \cup {j}, p) = OfProduct(items, p) \cup {j}
           /\ ProductOf(j) # p => OfProduct(items \cup {j}, p) = OfProduct(items, p)
  <1>1. /\ ProductOf(j) = p => OfProduct(items \cup {j}, p) = OfProduct(items, p) \cup {j}
        /\ ProductOf(j) # p => OfProduct(items \cup {j}, p) = OfProduct(items, p)
    BY DEF OfProduct
  <1> QED BY <1>1, FS_AddElement

\* Its units add to those of its product.
LEMMA OneMoreCounted ==
    ASSUME NEW items, NEW j, NEW p, IsFiniteSet(OfProduct(items, p)), NEW now,
           j \notin items, ProductOf(j) = p, \A i \in items \cup {j} : now[i] \in Int
    PROVE  SumFunctionOnSet(now, OfProduct(items \cup {j}, p))
              = SumFunctionOnSet(now, OfProduct(items, p)) + now[j]
  <1>1. PICK some : some = OfProduct(items, p)
    OBVIOUS
  <1>2. j \notin some /\ IsFiniteSet(some) /\ \A i \in some \cup {j} : now[i] \in Int
    BY <1>1 DEF OfProduct
  <1>3. SumFunctionOnSet(now, some \cup {j}) = SumFunctionOnSet(now, some) + now[j]
    BY ONLY <1>2, SumAdd
  <1>4. OfProduct(items \cup {j}, p) = some \cup {j}
    BY <1>1, OneMoreAdded
  <1> QED BY <1>1, <1>3, <1>4

\* Each step of a receipt moves one item on.
LEMMA ReceiptStepKnown ==
    ASSUME OrdersTypeInv, OrdersKardexInv, OrdersKnownInv, NEW c \in Clerks,
           (\E i \in ItemId : CheckItem(c, i)) \/ ReadProduct(c) \/ AddStock(c) \/ CountItem(c) \/ ReadItems(c)
    PROVE  OrdersKnownInv'
  <1>0. clerk[c] \in Clerk /\ clerk \in [Clerks -> Clerk]
    BY DEF OrdersTypeInv, OrdersTypeOK
  <1> DEFINE o == clerk[c].order
  <1>1. /\ clerk[c].pc \in ReceivingStates /\ clerk[c].pc # "done" /\ UNCHANGED <<product, order, item>>
    BY DEF CheckItem, ReadProduct, AddStock, CountItem, ReadItems, ReceivingStates, inventoryVars
  <1>2. /\ ReceiptKnown(clerk[c], Held(c)) /\ o \in Orders /\ order[o].status # "none"
        /\ Held(c) \subseteq ItemsOf(o)
    BY <1>1 DEF OrdersKnownInv, ClerkKnown, ReceivingStates
  <1>3. ASSUME NEW local, NEW held, clerk' = [clerk EXCEPT ![c] = local], local.order = o,
               local.pc \in ReceivingStates, Held(c)' = held, held \subseteq ItemsOf(o),
               \A d \in Clerks : d # c => \A i \in ItemId : itemLock'[i] = d <=> itemLock[i] = d,
               ReceiptKnown(local, held)
        PROVE  OrdersKnownInv'
    <2>1. ClerkKnown(local, held)
      BY <1>2, <1>3 DEF ClerkKnown, UpdatingStates, ReceivingStates
    <2> QED BY <1>1, <1>3, <2>1, KnownGoesOn DEF ReceivingStates
  <1>4. clerk[c].pc \in {"checked", "writing", "counting"} => clerk[c].current \in ItemId
    BY DEF OrdersTypeInv, ClerksNameItems, NamesItem
  <1>5. ASSUME NEW i \in ItemId, CheckItem(c, i) PROVE OrdersKnownInv'
    <2> DEFINE local == [clerk[c] EXCEPT !.pc = "checked", !.current = i, !.todo = clerk[c].todo \ {i}]
    <2>1. clerk' = [clerk EXCEPT ![c] = local]
      BY <1>0, <1>5 DEF CheckItem
    <2>2. /\ local.pc = "checked" /\ local.order = o /\ local.todo = clerk[c].todo \ {i}
          /\ local.current = i /\ local.add = clerk[c].add /\ local.now = clerk[c].now
      BY <1>0 DEF Clerk
    <2> HIDE DEF local
    <2>3. clerk[c].pc = "receiving" /\ i \in clerk[c].todo /\ itemLock' = itemLock
      BY <1>5 DEF CheckItem
    <2>4. ReceiptKnown(local, Held(c))
      <3>1. Added(local, Held(c)) = Added(clerk[c], Held(c))
        BY <2>2, <2>3 DEF Added
      <3>2. UnderWay(local) = {i} /\ UnderWay(clerk[c]) = {}
        BY <2>2, <2>3 DEF UnderWay
      <3> QED BY <1>2, <2>2, <2>3, <3>1, <3>2 DEF ReceiptKnown
    <2>5. Held(c)' = Held(c)
      BY <2>3 DEF Held
    <2> QED BY <1>2, <1>3, <2>1, <2>2, <2>3, <2>4, <2>5 DEF ReceivingStates
  <1>6. ASSUME ReadProduct(c) PROVE OrdersKnownInv'
    <2> DEFINE p == ProductOf(clerk[c].current)
               seen == [product[p] EXCEPT !.stock = @ + clerk[c].add[p]]
               pc == IF TracksStock(product[p]) THEN "writing" ELSE "counting"
               local == [clerk[c] EXCEPT !.pc = pc, !.seen = seen]
    <2>1. clerk' = [clerk EXCEPT ![c] = local]
      <3> HIDE DEF seen
      <3>1. clerk' = [clerk EXCEPT ![c].pc = pc, ![c].seen = seen]
        BY <1>6 DEF ReadProduct, seen
      <3> QED BY <1>0, <3>1
    <2> HIDE DEF seen
    <2>2. /\ local.pc = pc /\ local.order = o /\ local.todo = clerk[c].todo
          /\ local.current = clerk[c].current /\ local.add = clerk[c].add /\ local.now = clerk[c].now
      BY <1>0 DEF Clerk
    <2> HIDE DEF local
    <2>3. clerk[c].pc = "checked" /\ itemLock' = itemLock
      BY <1>6 DEF ReadProduct
    <2>4. ReceiptKnown(local, Held(c))
      <3>1. UnderWay(local) = UnderWay(clerk[c])
        BY <2>2, <2>3 DEF UnderWay
      <3>2. Added(clerk[c], Held(c)) = Held(c)
        BY <2>3 DEF Added
      <3>3. CASE TracksStock(product[p])
        <4>1. Added(local, Held(c)) = Held(c)
          BY <2>2, <3>3 DEF Added
        <4> QED BY <1>2, <2>2, <2>3, <3>1, <3>2, <3>3, <4>1 DEF ReceiptKnown
      <3>4. CASE ~TracksStock(product[p])
        <4>1. Added(local, Held(c)) = Held(c) \cup {clerk[c].current}
          BY <2>2, <3>4 DEF Added
        <4>2. ASSUME NEW q \in Products
              PROVE  /\ IsFiniteSet(OfProduct(Added(local, Held(c)), q))
                     /\ local.add[q] = IF TracksStock(product[q])
                            THEN SumFunctionOnSet(local.now, OfProduct(Added(local, Held(c)), q)) ELSE 0
          <5>1. /\ IsFiniteSet(OfProduct(Held(c), q))
                /\ clerk[c].add[q] = IF TracksStock(product[q])
                       THEN SumFunctionOnSet(clerk[c].now, OfProduct(Held(c), q)) ELSE 0
            BY <1>2, <3>2 DEF ReceiptKnown
          <5>2. /\ IsFiniteSet(OfProduct(Held(c) \cup {clerk[c].current}, q))
                /\ q # p => OfProduct(Held(c) \cup {clerk[c].current}, q) = OfProduct(Held(c), q)
            <6>1. PICK held, k : held = Held(c) /\ k = clerk[c].current
              OBVIOUS
            <6>2. IsFiniteSet(OfProduct(held, q))
              BY <5>1, <6>1
            <6>3. /\ IsFiniteSet(OfProduct(held \cup {k}, q))
                  /\ ProductOf(k) # q => OfProduct(held \cup {k}, q) = OfProduct(held, q)
              BY ONLY <6>2, OneMoreAdded
            <6> QED BY <6>1, <6>3
          <5> QED BY <2>2, <3>4, <4>1, <5>1, <5>2
        <4> QED BY <1>2, <2>2, <2>3, <3>1, <3>4, <4>2 DEF ReceiptKnown
      <3> QED BY <3>3, <3>4
    <2>5. Held(c)' = Held(c)
      BY <2>3 DEF Held
    <2> QED BY <1>2, <1>3, <2>1, <2>2, <2>3, <2>4, <2>5 DEF ReceivingStates
  <1>7. ASSUME AddStock(c) PROVE OrdersKnownInv'
    <2> DEFINE j == clerk[c].current
               p == ProductOf(j)
               n == clerk[c].now[j]
               add == [clerk[c].add EXCEPT ![p] = clerk[c].add[p] + n]
               rows == [clerk[c].rows EXCEPT ![p] = Append(clerk[c].rows[p],
                          MovementRow("PURCHASE", clerk[c].seen.stock, clerk[c].seen.stock + n, clerk[c].order))]
               local == [clerk[c] EXCEPT !.pc = "counting", !.add = add, !.rows = rows]
    <2>1. clerk' = [clerk EXCEPT ![c] = local]
      BY <1>0, <1>7 DEF AddStock, Clerk
    <2> HIDE DEF rows
    <2>2. /\ local.pc = "counting" /\ local.order = o /\ local.todo = clerk[c].todo
          /\ local.current = j /\ local.add = add /\ local.now = clerk[c].now
      BY <1>0 DEF Clerk
    <2> HIDE DEF local
    <2>3. clerk[c].pc = "writing" /\ itemLock' = itemLock
      BY <1>7 DEF AddStock
    <2>4. TracksStock(product[p])
      BY <2>3 DEF OrdersKardexInv, ReadsTheRow
    <2>5. UnderWay(local) = {j} /\ UnderWay(clerk[c]) = {j} /\ Added(clerk[c], Held(c)) = Held(c)
          /\ Added(local, Held(c)) = Held(c) \cup {j}
      BY <2>2, <2>3 DEF UnderWay, Added
    <2>6. j \in ItemId /\ j \notin Held(c) /\ p \in Products
      BY <1>2, <1>4, <2>3, <2>5, ItemParts DEF ReceiptKnown
    <2>7. /\ clerk[c].add \in [Products -> Nat]
          /\ \A i \in ItemId : clerk[c].now[i] \in Int
      <3>1. \A i \in ItemId : clerk[c].now[i] \in 0..MaxOrdered
        BY <1>0 DEF Clerk
      <3> QED BY <1>0, <3>1 DEF Clerk
    <2>8. \A q \in Products : add[q] = IF q = p THEN clerk[c].add[p] + n ELSE clerk[c].add[q]
      BY <2>6, <2>7
    <2> HIDE DEF add
    <2>9. ASSUME NEW q \in Products
          PROVE  /\ IsFiniteSet(OfProduct(Held(c) \cup {j}, q))
                 /\ add[q] = IF TracksStock(product[q])
                             THEN SumFunctionOnSet(clerk[c].now, OfProduct(Held(c) \cup {j}, q)) ELSE 0
      <3>1. /\ IsFiniteSet(OfProduct(Held(c), q))
            /\ clerk[c].add[q] = IF TracksStock(product[q])
                   THEN SumFunctionOnSet(clerk[c].now, OfProduct(Held(c), q)) ELSE 0
        BY <1>2, <2>5 DEF ReceiptKnown
      <3>2. /\ IsFiniteSet(OfProduct(Held(c) \cup {j}, q))
            /\ q # p => OfProduct(Held(c) \cup {j}, q) = OfProduct(Held(c), q)
        <4>1. PICK held, k : held = Held(c) /\ k = j
          OBVIOUS
        <4>2. IsFiniteSet(OfProduct(held, q))
          BY <3>1, <4>1
        <4>3. /\ IsFiniteSet(OfProduct(held \cup {k}, q))
              /\ ProductOf(k) # q => OfProduct(held \cup {k}, q) = OfProduct(held, q)
          BY ONLY <4>2, OneMoreAdded
        <4> QED BY <4>1, <4>3
      <3>3. CASE q # p
        <4>1. OfProduct(Held(c) \cup {j}, q) = OfProduct(Held(c), q)
          BY <3>2, <3>3
        <4>2. add[q] = clerk[c].add[q]
          BY <2>8, <3>3
        <4> QED BY <3>1, <4>1, <4>2
      <3>4. CASE q = p
        <4>1. \A i \in Held(c) \cup {j} : clerk[c].now[i] \in Int
          BY <2>6, <2>7 DEF Held
        <4>2. PICK held, now : held = Held(c) /\ now = clerk[c].now
          OBVIOUS
        <4>3. PICK k : k = j
          OBVIOUS
        <4>4. SumFunctionOnSet(now, OfProduct(held \cup {k}, q))
                 = SumFunctionOnSet(now, OfProduct(held, q)) + now[k]
          <5>1. /\ IsFiniteSet(OfProduct(held, q)) /\ k \notin held /\ ProductOf(k) = q
                /\ \A i \in held \cup {k} : now[i] \in Int
            BY <2>6, <3>1, <3>4, <4>1, <4>2, <4>3
          <5> QED BY ONLY <5>1, OneMoreCounted
        <4>5. add[q] = clerk[c].add[q] + n
          BY <2>8, <3>4
        <4>6. TracksStock(product[q])
          BY <2>4, <3>4
        <4>7. clerk[c].add[q] = SumFunctionOnSet(clerk[c].now, OfProduct(Held(c), q))
          BY <3>1, <4>6
        <4>8. add[q] = SumFunctionOnSet(clerk[c].now, OfProduct(Held(c) \cup {j}, q))
          BY <4>2, <4>3, <4>4, <4>5, <4>7
        <4> QED BY <3>2, <4>6, <4>8
      <3> QED BY <3>3, <3>4
    <2>10. ReceiptKnown(local, Held(c))
      BY <1>2, <2>2, <2>3, <2>5, <2>9 DEF ReceiptKnown
    <2>11. Held(c)' = Held(c)
      BY <2>3 DEF Held
    <2> QED BY <1>2, <1>3, <2>1, <2>2, <2>3, <2>10, <2>11 DEF ReceivingStates
  <1>8. ASSUME CountItem(c) PROVE OrdersKnownInv'
    <2> DEFINE j == clerk[c].current
               local == [clerk[c] EXCEPT !.pc = "receiving", !.current = None]
               held == Held(c) \cup {j}
    <2>1. clerk' = [clerk EXCEPT ![c] = local]
      BY <1>0, <1>8 DEF CountItem
    <2>2. /\ local.pc = "receiving" /\ local.order = o /\ local.todo = clerk[c].todo
          /\ local.add = clerk[c].add /\ local.now = clerk[c].now
      BY <1>0 DEF Clerk
    <2> HIDE DEF local
    <2>3. /\ clerk[c].pc = "counting" /\ itemLock[j] = None /\ itemLock' = [itemLock EXCEPT ![j] = c]
          /\ item[j].order = o
      BY <1>8 DEF CountItem
    <2>4. j \in ItemId /\ j \in ItemsOf(o)
      BY <1>4, <2>3 DEF ItemsOf
    <2>5. \A i \in ItemId : itemLock'[i] = IF i = j THEN c ELSE itemLock[i]
      BY <2>3, <2>4 DEF OrdersTypeInv, OrdersTypeOK
    <2>6. Held(c)' = held
      BY <2>4, <2>5 DEF Held
    <2>7. \A d \in Clerks : d # c => \A i \in ItemId : itemLock'[i] = d <=> itemLock[i] = d
      BY <2>3, <2>5, PurchaseOrdersAssumption, InventoryAssumption
    <2>8. Added(local, held) = Added(clerk[c], Held(c))
      BY <2>2, <2>3 DEF Added
    <2>9. UnderWay(local) = {} /\ UnderWay(clerk[c]) = {j}
      BY <2>2, <2>3 DEF UnderWay
    <2>10. ReceiptKnown(local, held)
      BY <1>2, <2>2, <2>3, <2>8, <2>9 DEF ReceiptKnown
    <2>11. held \subseteq ItemsOf(o)
      BY <1>2, <2>4
    <2> HIDE DEF held
    <2> QED BY <1>3, <2>1, <2>2, <2>6, <2>7, <2>10, <2>11 DEF ReceivingStates
  <1>9. ASSUME ReadItems(c) PROVE OrdersKnownInv'
    <2> DEFINE all == AllReceived(c)
               local == [clerk[c] EXCEPT !.pc = "closing", !.allReceived = all]
    <2>1. clerk' = [clerk EXCEPT ![c] = local]
      BY <1>0, <1>9 DEF ReadItems
    <2> HIDE DEF all
    <2>2. /\ local.pc = "closing" /\ local.order = o /\ local.todo = clerk[c].todo
          /\ local.add = clerk[c].add /\ local.now = clerk[c].now
      BY <1>0 DEF Clerk
    <2> HIDE DEF local
    <2>3. clerk[c].pc = "receiving" /\ clerk[c].todo = {} /\ itemLock' = itemLock
      BY <1>9 DEF ReadItems
    <2>4. ReceiptKnown(local, Held(c))
      <3>1. Added(local, Held(c)) = Added(clerk[c], Held(c)) /\ UnderWay(local) = UnderWay(clerk[c])
        BY <2>2, <2>3 DEF Added, UnderWay
      <3> QED BY <1>2, <2>2, <2>3, <3>1 DEF ReceiptKnown
    <2>5. Held(c)' = Held(c)
      BY <2>3 DEF Held
    <2> QED BY <1>2, <1>3, <2>1, <2>2, <2>3, <2>4, <2>5 DEF ReceivingStates
  <1> QED BY <1>5, <1>6, <1>7, <1>8, <1>9

\* A step that writes an order and ends its request: the other orders, and what the
\* other requests know, stay as they were.
LEMMA KnownEnds ==
    ASSUME OrdersTypeInv, OrdersKnownInv, NEW c \in Served, NEW o \in Orders,
           o = clerk[c].order, End(c, "done"),
           \A x \in Orders : x # o => order'[x] = order[x],
           order'[o].status # "none",
           order[o].status \notin {"none", "DRAFT"} => order'[o].status # "DRAFT",
           \A i \in ItemId, x \in Orders : x # o => (item'[i].order = x <=> item[i].order = x),
           \A i \in ItemId : item'[i].order \notin {o, None} => item'[i] = item[i],
           \A i \in ItemId : itemLock[i] # c /\ item[i].order = o => item'[i].order = o,
           \A p \in Products : TracksStock(product'[p]) <=> TracksStock(product[p]),
           \A i \in ItemId, d \in Clerks : itemLock'[i] = d <=> d # c /\ itemLock[i] = d,
           FreshItems', OrderKnown(o)'
    PROVE  OrdersKnownInv'
  <1>0. clerk \in [Clerks -> Clerk] /\ c \in Clerks
    BY DEF OrdersTypeInv, OrdersTypeOK, Served
  <1>1. PICK local \in Clerk : clerk' = [clerk EXCEPT ![c] = local] /\ local.pc = "done"
    BY <1>0, EndsWithNothing
  <1>2. \A d \in Clerks : clerk'[d] = IF d = c THEN local ELSE clerk[d]
    BY <1>0, <1>1
  <1>3. CreatesFirst'
    BY <1>1, <1>2 DEF OrdersKnownInv, CreatesFirst, Served
  <1>4. ASSUME NEW x \in Orders, x # o PROVE OrderKnown(x)'
    <2>1. OrderKnown(x) /\ x # None /\ order'[x] = order[x]
      BY <1>4, PurchaseOrdersAssumption DEF OrdersKnownInv
    <2>2. ItemsOf(x)' = ItemsOf(x)
      BY <1>4 DEF ItemsOf
    <2>3. \A p \in Products : ItemsFor(x, p)' = ItemsFor(x, p)
      BY <2>2 DEF ItemsFor
    <2>4. \A i \in ItemsOf(x) : item'[i] = item[i]
      <3>1. \A i \in ItemsOf(x) : i \in ItemId /\ item[i].order = x
        BY DEF ItemsOf
      <3> QED BY <1>4, <2>1, <3>1
    <2> QED BY <2>1, <2>2, <2>3, <2>4 DEF OrderKnown
  <1>5. ASSUME NEW d \in Clerks PROVE ClerkKnown(clerk[d], Held(d))'
    <2>1. CASE d = c
      <3>1. clerk'[c].pc = "done" /\ Held(c)' = {}
        BY <1>0, <1>1, <1>2 DEF Held
      <3> QED BY <2>1, <3>1 DEF ClerkKnown, UpdatingStates, ReceivingStates
    <2>2. CASE d # c
      <3>1. clerk'[d] = clerk[d] /\ ClerkKnown(clerk[d], Held(d))
        BY <1>2, <2>2 DEF OrdersKnownInv
      <3>2. \A i \in ItemId : itemLock'[i] = d <=> itemLock[i] = d
        BY <2>2
      <3>3. ASSUME d \in Served
            PROVE LET x == clerk[d].order IN
              /\ order[x].status = "none" <=> order'[x].status = "none"
              /\ order[x].status \notin {"none", "DRAFT"} => order'[x].status \notin {"none", "DRAFT"}
              /\ \A i \in Held(d) : item[i].order = x => item'[i].order = x
        <4> DEFINE x == clerk[d].order
        <4>1. x \in Orders
          BY <3>1, <3>3 DEF ClerkKnown, Served
        <4>2. CASE x = o
          <5>1. order[o].status = "none" => clerk[c].pc = "creating"
            BY <1>0 DEF OrdersKnownInv, ClerkKnown, Served
          <5>2. order[o].status # "none"
            BY <1>0, <2>2, <3>3, <4>2, <5>1 DEF OrdersKnownInv, CreatesFirst
          <5>3. \A i \in Held(d) : i \in ItemId /\ itemLock[i] # c
            BY <2>2 DEF Held
          <5> QED BY <4>2, <5>2, <5>3
        <4>3. CASE x # o
          BY <4>1, <4>3 DEF Held
        <4> QED BY <4>2, <4>3
      <3> QED BY <3>1, <3>2, <3>3, StillKnown
    <2> QED BY <2>1, <2>2
  <1>6. \A x \in Orders : OrderKnown(x)'
    BY <1>4
  <1> QED BY <1>3, <1>5, <1>6 DEF OrdersKnownInv

\* Confirmations and cancellations change the status of an order, and nothing else.
LEMMA StatusKnown ==
    ASSUME OrdersTypeInv, OrdersKardexInv, OrdersKnownInv, NEW c \in Clerks, Confirm(c) \/ Cancel(c)
    PROVE  OrdersKnownInv'
  <1>1. /\ c \in Served /\ End(c, "done") /\ clerk[c].pc \in {"confirming", "cancelling"}
        /\ UNCHANGED <<product, item, itemLock>>
    BY DEF Confirm, Cancel, Served, inventoryVars
  <1>2. PICK o \in Orders : o = clerk[c].order
    BY <1>1 DEF OrdersKnownInv, ClerkKnown
  <1>3. Held(c) = {} /\ order \in [Orders -> OrderRow]
    BY <1>1, NothingHeld DEF ReceivingStates, OrdersTypeInv, OrdersTypeOK
  <1>4. PICK status \in {"PENDING", "CANCELLED"} : order' = [order EXCEPT ![o].status = status]
    BY <1>2 DEF Confirm, Cancel
  <1>5. /\ order'[o].status = status
        /\ \A x \in Orders : x # o => order'[x] = order[x]
    BY <1>3, <1>4 DEF OrderRow
  <1>6. FreshItems'
    <2>1. \A d \in Clerks : clerk'[d].pc = IF d = c THEN "done" ELSE clerk[d].pc
      BY <1>1, IdleClerkType DEF End, OrdersTypeInv, OrdersTypeOK
    <2> QED BY <1>1, <2>1 DEF OrdersKnownInv, FreshItems
  <1>7. OrderKnown(o)'
    <2>1. OrderKnown(o)
      BY DEF OrdersKnownInv
    <2>2. \A p \in Products : ItemsFor(o, p)' = ItemsFor(o, p)
      BY <1>1 DEF ItemsFor, ItemsOf
    <2> QED BY <1>5, <2>1, <2>2 DEF OrderKnown
  <1>8. \A i \in ItemId, d \in Clerks : itemLock'[i] = d <=> d # c /\ itemLock[i] = d
    BY <1>1, <1>3 DEF Held
  <1>9. item' = item /\ product' = product /\ c \in Served /\ End(c, "done")
    BY <1>1
  <1> HIDE <1>1
  <1> QED BY <1>2, <1>5, <1>6, <1>7, <1>8, <1>9, KnownEnds

\* A creation or an update replaces the items it holds by new ones, and no other.
LEMMA ItemsReplaced ==
    ASSUME OrdersTypeInv, OrdersKardexInv, OrdersKnownInv, NEW c \in Clerks,
           CreateOrder(c) \/ CommitUpdate(c)
    PROVE  \E o \in Orders, w \in Orders \cup Clerks, lines \in [Products -> 0..MaxOrdered] :
              /\ o = clerk[c].order /\ w \in {o, c} /\ lines # NoLines /\ Held(c) \subseteq ItemsOf(o)
              /\ \A i \in NewItems(w, lines) :
                    /\ i \in ItemId /\ i[1] = w /\ item[i].order = None
                    /\ item'[i].order = o /\ item'[i].qtyReceived = 0
                    /\ item'[i].qtyOrdered = lines[ProductOf(i)]
              /\ \A i \in ItemId \ NewItems(w, lines) :
                    item'[i] = IF i \in Held(c) THEN NoItem ELSE item[i]
              /\ order'[o].status = IF order[o].status = "none" THEN "DRAFT" ELSE order[o].status
              /\ \A x \in Orders : x # o => order'[x] = order[x]
  <1>1. clerk[c].pc \in {"creating", "inserting"}
    BY DEF CreateOrder, CommitUpdate
  <1>2. PICK o \in Orders : /\ o = clerk[c].order /\ (order[o].status = "none" <=> clerk[c].pc = "creating")
                            /\ Held(c) \subseteq ItemsOf(o)
    <2>1. Held(c) # {} => Held(c) \subseteq ItemsOf(clerk[c].order)
      BY DEF OrdersKnownInv, ClerkKnown
    <2> QED BY <1>1, <2>1 DEF OrdersKnownInv, ClerkKnown
  <1>3. PICK lines \in [Products -> 0..MaxOrdered] : lines = clerk[c].lines
    BY DEF OrdersTypeInv, OrdersTypeOK, Clerk, OrderLines
  <1>4. lines # NoLines
    BY <1>1, <1>3 DEF OrdersKnownInv, ClerkKnown, UpdatingStates
  <1>5. order \in [Orders -> OrderRow] /\ FreshItems /\ OrderKnown(o)
    BY DEF OrdersKnownInv, OrdersTypeInv, OrdersTypeOK
  <1>6. PICK w \in Orders \cup Clerks, table \in {item, RemainingItems(c)} :
           /\ w \in {o, c} /\ item' = Insert(table, w, lines, o)
           /\ \A i \in ItemId : i[1] = w => item[i].order = None
           /\ \A i \in ItemId : table[i] = IF i \in Held(c) THEN NoItem ELSE item[i]
           /\ order'[o].status = IF order[o].status = "none" THEN "DRAFT" ELSE order[o].status
           /\ \A x \in Orders : x # o => order'[x] = order[x]
    <2>1. CASE CreateOrder(c)
      <3>1. order[o].status = "none" /\ Held(c) = {}
        BY <1>2, <2>1, NothingHeld DEF CreateOrder, ReceivingStates
      <3>2. ItemsOf(o) = {}
        BY <1>5, <3>1 DEF OrderKnown
      <3>3. \A i \in ItemId : i[1] = o => item[i].order = None
        BY <1>5, <3>2 DEF FreshItems, ItemsOf, ItemId
      <3>4. /\ order' = [order EXCEPT ![o] = [status |-> "DRAFT", total |-> lines]]
            /\ item' = Insert(item, o, lines, o)
        BY <1>2, <1>3, <2>1 DEF CreateOrder
      <3>5. order'[o].status = "DRAFT" /\ \A x \in Orders : x # o => order'[x] = order[x]
        BY <1>5, <3>4
      <3> QED BY <3>1, <3>3, <3>4, <3>5
    <2>2. CASE CommitUpdate(c)
      <3>1. order[o].status # "none" /\ clerk[c].pc # "done"
        BY <1>2, <2>2 DEF CommitUpdate
      <3>2. \A i \in ItemId : i[1] = c => item[i].order = None
        BY <1>5, <3>1 DEF FreshItems, ItemId
      <3>3. PICK table : table = RemainingItems(c)
        OBVIOUS
      <3>4. \A i \in ItemId : table[i] = IF i \in Held(c) THEN NoItem ELSE item[i]
        BY <3>3 DEF RemainingItems, Held
      <3>5. order' = [order EXCEPT ![o].total = lines] /\ item' = Insert(table, c, lines, o)
        BY <1>2, <1>3, <2>2, <3>3 DEF CommitUpdate
      <3>6. order'[o].status = order[o].status /\ \A x \in Orders : x # o => order'[x] = order[x]
        BY <1>5, <3>5 DEF OrderRow
      <3>7. table \in {item, RemainingItems(c)}
        BY ONLY <3>3
      <3> QED BY ONLY <1>2, <3>1, <3>2, <3>4, <3>5, <3>6, <3>7
    <2> QED BY <2>1, <2>2
  <1>7. /\ \A i \in NewItems(w, lines) : /\ item'[i].order = o /\ item'[i].qtyReceived = 0
                                         /\ item'[i].qtyOrdered = lines[ProductOf(i)]
                                         /\ i \in ItemId /\ i[1] = w
        /\ \A i \in ItemId \ NewItems(w, lines) : item'[i] = table[i]
    <2>1. ItemsInserted(table, w, lines, o)
      BY ONLY <1>6, InsertedItems
    <2>2. \A i \in NewItems(w, lines) : i \in ItemId /\ i[1] = w
      BY ONLY NewItemsParts
    <2> QED BY ONLY <2>1, <2>2 DEF ItemsInserted
  <1>8. \A i \in ItemId \ NewItems(w, lines) : item'[i] = IF i \in Held(c) THEN NoItem ELSE item[i]
    BY <1>6, <1>7
  <1> QED BY <1>2, <1>4, <1>6, <1>7, <1>8

\* So the order's other items stay, and what it had received is not forgotten.
LEMMA ReplacedKnown ==
    ASSUME OrdersTypeInv, OrdersKardexInv, OrdersKnownInv, NEW c \in Clerks,
           CreateOrder(c) \/ CommitUpdate(c)
    PROVE  OrdersKnownInv'
  <1>1. /\ c \in Served /\ End(c, "done") /\ UNCHANGED product /\ None \notin Orders \cup Clerks
        /\ itemLock' = ItemsReleased(c) \/ (itemLock' = itemLock /\ clerk[c].pc = "creating")
    BY PurchaseOrdersAssumption, InventoryAssumption DEF CreateOrder, CommitUpdate, Served, inventoryVars
  <1>2. PICK o \in Orders, w \in Orders \cup Clerks, lines \in [Products -> 0..MaxOrdered] :
              /\ o = clerk[c].order /\ w \in {o, c} /\ Held(c) \subseteq ItemsOf(o)
              /\ \A i \in NewItems(w, lines) :
                    /\ i \in ItemId /\ i[1] = w /\ item[i].order = None
                    /\ item'[i].order = o /\ item'[i].qtyReceived = 0
              /\ \A i \in ItemId \ NewItems(w, lines) :
                    item'[i] = IF i \in Held(c) THEN NoItem ELSE item[i]
              /\ order'[o].status = IF order[o].status = "none" THEN "DRAFT" ELSE order[o].status
              /\ \A x \in Orders : x # o => order'[x] = order[x]
    BY ItemsReplaced
  <1>3. PICK new : new = NewItems(w, lines)
    OBVIOUS
  <1>4. /\ \A i \in new : /\ i \in ItemId /\ i[1] = w /\ item[i].order = None
                          /\ item'[i].order = o /\ item'[i].qtyReceived = 0
        /\ \A i \in ItemId \ new : item'[i] = IF i \in Held(c) THEN NoItem ELSE item[i]
        /\ NoItem.order = None /\ \A i \in Held(c) : item[i].order = o /\ i \in ItemId
    BY <1>2, <1>3 DEF NoItem, ItemsOf
  <1>5. \A i \in ItemId, d \in Clerks : itemLock'[i] = d <=> d # c /\ itemLock[i] = d
    <2>1. CASE itemLock' = ItemsReleased(c)
      BY <1>1, <2>1 DEF ItemsReleased
    <2>2. CASE itemLock' = itemLock /\ clerk[c].pc = "creating"
      <3>1. Held(c) = {}
        BY <2>2, NothingHeld DEF ReceivingStates
      <3> QED BY <2>2, <3>1 DEF Held
    <2> QED BY <1>1, <2>1, <2>2
  <1>6. FreshItems'
    <2>1. \A d \in Clerks : clerk'[d].pc = IF d = c THEN "done" ELSE clerk[d].pc
      BY <1>1, IdleClerkType DEF End, OrdersTypeInv, OrdersTypeOK
    <2>2. FreshItems /\ Orders \cap Clerks = {}
      BY PurchaseOrdersAssumption DEF OrdersKnownInv
    <2>3. ASSUME NEW d \in Clerks, NEW p \in Products, item'[<<d, p>>].order # None
          PROVE  clerk'[d].pc = "done"
      <3>1. <<d, p>> \in ItemId /\ <<d, p>>[1] = d
        BY DEF ItemId
      <3>2. CASE d = c
        BY <2>1, <3>2
      <3>3. CASE d # c
        <4>1. <<d, p>> \notin new
          BY <1>2, <1>4, <2>2, <3>1, <3>3
        <4> QED BY <1>4, <2>1, <2>2, <2>3, <3>1, <3>3, <4>1 DEF FreshItems
      <3> QED BY <3>2, <3>3
    <2>4. ASSUME NEW x \in Orders, NEW p \in Products
          PROVE  item'[<<x, p>>].order \in {x, None}
      <3>1. <<x, p>> \in ItemId /\ <<x, p>>[1] = x
        BY DEF ItemId
      <3>2. item[<<x, p>>].order \in {x, None}
        BY <2>2 DEF FreshItems
      <3>3. CASE <<x, p>> \in new
        BY <1>2, <1>4, <2>2, <3>1, <3>3
      <3>4. CASE <<x, p>> \notin new
        BY <1>4, <3>1, <3>2, <3>4
      <3> QED BY <3>3, <3>4
    <2> QED BY <2>3, <2>4 DEF FreshItems
  <1>7. OrderKnown(o)'
    <2>1. OrderKnown(o)
      BY DEF OrdersKnownInv
    <2>2. ASSUME NEW i \in ItemsOf(o)'
          PROVE  i \in new \/ (i \in ItemsOf(o) /\ item'[i] = item[i])
      <3>1. i \in ItemId /\ item'[i].order = o
        BY DEF ItemsOf
      <3> QED BY <1>1, <1>4, <3>1 DEF ItemsOf
    <2>3. order'[o].status # "none"
      BY <1>2
    <2>4. order'[o].status = "DRAFT" => \A i \in ItemsOf(o)' : item'[i].qtyReceived = 0
      BY <1>2, <1>4, <2>1, <2>2 DEF OrderKnown
    <2>5. ASSUME NEW p \in Products
          PROVE  IsFiniteSet(ItemsFor(o, p))'
      <3>1. ItemsFor(o, p)' \subseteq ItemsFor(o, p) \cup {<<w, p>>}
        <4> SUFFICES ASSUME NEW i \in ItemsFor(o, p)', i \notin ItemsFor(o, p)
                     PROVE  i = <<w, p>>
          OBVIOUS
        <4>1. i \in ItemsOf(o)' /\ i \in ItemId /\ ProductOf(i) = p
          BY DEF ItemsFor, ItemsOf
        <4>2. i \in new
          BY <2>2, <4>1 DEF ItemsFor
        <4> QED BY <1>4, <4>1, <4>2 DEF ItemId, ProductOf
      <3>2. IsFiniteSet(ItemsFor(o, p) \cup {<<w, p>>})
        BY <2>1, FS_AddElement DEF OrderKnown
      <3>3. IsFiniteSet(ItemsFor(o, p)')
        BY <3>1, <3>2, FS_Subset
      <3> QED BY <3>3
    <2> QED BY <2>3, <2>4, <2>5 DEF OrderKnown
  <1>8. /\ \A i \in ItemId, x \in Orders : x # o => (item'[i].order = x <=> item[i].order = x)
        /\ \A i \in ItemId : item'[i].order \notin {o, None} => item'[i] = item[i]
        /\ \A i \in ItemId : itemLock[i] # c /\ item[i].order = o => item'[i].order = o
    <2>1. \A i \in ItemId : i \in Held(c) <=> itemLock[i] = c
      BY DEF Held
    <2> QED BY <1>1, <1>4, <2>1
  <1>9. \A p \in Products : TracksStock(product'[p]) <=> TracksStock(product[p])
    BY <1>1
  <1>10. /\ order'[o].status # "none"
         /\ order[o].status \notin {"none", "DRAFT"} => order'[o].status # "DRAFT"
    BY <1>2
  <1>11. /\ c \in Served /\ End(c, "done") /\ o = clerk[c].order
         /\ \A x \in Orders : x # o => order'[x] = order[x]
    BY <1>1, <1>2
  <1> QED BY ONLY OrdersTypeInv, OrdersKnownInv, <1>5, <1>6, <1>7, <1>8, <1>9, <1>10, <1>11, KnownEnds

\* The commit of a receipt counts what it was asked for on the items it holds, and adds
\* it to the stock of the products that are kept in stock.
LEMMA ItemsReceived ==
    ASSUME OrdersTypeInv, OrdersKardexInv, OrdersKnownInv, NEW c \in Clerks, CommitReceive(c)
    PROVE  \E o \in Orders, now \in [ItemId -> Nat] :
              /\ o = clerk[c].order /\ now = clerk[c].now
              /\ order[o].status \notin {"none", "DRAFT"}
              /\ \A i \in ItemId : i \in Held(c) <=> now[i] > 0
              /\ Held(c) \subseteq ItemsOf(o) /\ Held(c) # {}
              /\ \A i \in ItemId : /\ item'[i].order = item[i].order
                                   /\ item'[i].qtyOrdered = item[i].qtyOrdered
                                   /\ item'[i].qtyReceived = item[i].qtyReceived + now[i]
                                   /\ i \notin Held(c) => item'[i] = item[i]
              /\ order' = [order EXCEPT ![o].status =
                              IF clerk[c].allReceived THEN "RECEIVED" ELSE "PARTIAL_RECEIVED"]
              /\ \A p \in Products :
                    /\ TracksStock(product'[p]) <=> TracksStock(product[p])
                    /\ IsFiniteSet(OfProduct(Held(c), p))
                    /\ product'[p].stock = product[p].stock +
                          IF TracksStock(product[p]) THEN SumFunctionOnSet(now, OfProduct(Held(c), p)) ELSE 0
  <1>1. /\ clerk[c].pc = "closing" /\ item' = ReceivedItems(c)
    BY DEF CommitReceive
  <1>2. PICK o \in Orders : o = clerk[c].order
    BY <1>1 DEF OrdersKnownInv, ClerkKnown
  <1>3. /\ order \in [Orders -> OrderRow] /\ clerk[c] \in Clerk
        /\ \A i \in ItemId : item[i] \in ItemRow
        /\ \A p \in Products : product[p] \in ProductRow
    BY DEF OrdersTypeInv, OrdersTypeOK, InventoryTypeOK
  <1>4. PICK now \in [ItemId -> Nat] : now = clerk[c].now
    <2>1. clerk[c].now \in [ItemId -> 0..MaxOrdered] /\ 0..MaxOrdered \subseteq Nat
      BY <1>3 DEF Clerk
    <2> QED BY <2>1
  <1>5. /\ ReceiptKnown(clerk[c], Held(c)) /\ Held(c) \subseteq ItemId
        /\ Held(c) # {} => Held(c) \subseteq ItemsOf(o)
    BY <1>1, <1>2 DEF OrdersKnownInv, ClerkKnown, ReceivingStates, Held
  <1>6. /\ UnderWay(clerk[c]) = {} /\ Added(clerk[c], Held(c)) = Held(c) /\ clerk[c].todo = {}
    BY <1>1, <1>5 DEF UnderWay, Added, ReceiptKnown
  <1>7. /\ order[o].status \notin {"none", "DRAFT"}
        /\ \A i \in ItemId : i \in Held(c) <=> now[i] > 0
        /\ \E i \in ItemId : now[i] > 0
    BY <1>2, <1>4, <1>5, <1>6 DEF ReceiptKnown
  <1>8. ASSUME NEW i \in ItemId
        PROVE  /\ item'[i].order = item[i].order
               /\ item'[i].qtyOrdered = item[i].qtyOrdered
               /\ item'[i].qtyReceived = item[i].qtyReceived + now[i]
               /\ i \notin Held(c) => item'[i] = item[i]
    <2>1. now[i] \in Nat /\ item[i] \in ItemRow
      BY <1>3
    <2>2. CASE itemLock[i] = c
      <3>1. item'[i] = [item[i] EXCEPT !.qtyReceived = @ + now[i]] /\ i \in Held(c)
        BY <1>1, <1>4, <2>2 DEF ReceivedItems, Held
      <3> QED BY <2>1, <3>1 DEF ItemRow
    <2>3. CASE itemLock[i] # c
      <3>1. item'[i] = item[i] /\ i \notin Held(c)
        BY <1>1, <2>3 DEF ReceivedItems, Held
      <3>2. now[i] = 0
        BY <1>7, <2>1, <3>1
      <3> QED BY <2>1, <3>1, <3>2 DEF ItemRow
    <2> QED BY <2>2, <2>3
  <1>9. order' = [order EXCEPT ![o].status =
                     IF clerk[c].allReceived THEN "RECEIVED" ELSE "PARTIAL_RECEIVED"]
    BY <1>2 DEF CommitReceive
  <1>10. ASSUME NEW p \in Products
         PROVE  /\ TracksStock(product'[p]) <=> TracksStock(product[p])
                /\ product'[p].stock = product[p].stock + clerk[c].add[p]
    <2> DEFINE n == StockReceived(c, p)
               v == product[p].version + Len(clerk[c].rows[p])
    <2>1. CASE lock[p] = c
      <3>1. product'[p] = [product[p] EXCEPT !.stock = n, !.version = v]
        BY <1>3, <2>1 DEF CommitReceive, ProductRow
      <3>2. n = product[p].stock + clerk[c].add[p]
        BY DEF StockReceived
      <3> HIDE DEF n, v
      <3> QED BY <1>3, <3>1, <3>2 DEF ProductRow, TracksStock
    <2>2. CASE lock[p] # c
      <3>1. product'[p] = product[p]
        BY <2>2 DEF CommitReceive
      <3>2. clerk[c].add[p] = 0
        BY <2>2 DEF OrdersKardexInv, HoldsBack
      <3>3. product[p].stock \in Int
        BY <1>3 DEF ProductRow
      <3> QED BY <3>1, <3>2, <3>3
    <2> QED BY <2>1, <2>2
  <1>11. \A p \in Products :
            /\ IsFiniteSet(OfProduct(Held(c), p))
            /\ clerk[c].add[p] =
                  IF TracksStock(product[p]) THEN SumFunctionOnSet(now, OfProduct(Held(c), p)) ELSE 0
    BY <1>4, <1>5, <1>6 DEF ReceiptKnown
  <1>12. Held(c) \subseteq ItemsOf(o) /\ Held(c) # {}
    BY <1>5, <1>7
  <1>13. \A p \in Products :
            /\ TracksStock(product'[p]) <=> TracksStock(product[p])
            /\ IsFiniteSet(OfProduct(Held(c), p))
            /\ product'[p].stock = product[p].stock +
                  IF TracksStock(product[p]) THEN SumFunctionOnSet(now, OfProduct(Held(c), p)) ELSE 0
    BY <1>10, <1>11
  <1>14. WITNESS o \in Orders, now \in [ItemId -> Nat]
  <1>15. /\ o = clerk[c].order /\ now = clerk[c].now
         /\ order[o].status \notin {"none", "DRAFT"}
    BY <1>2, <1>4, <1>7
  <1> QED BY ONLY <1>7, <1>8, <1>9, <1>12, <1>13, <1>15

\* So the order is neither a draft again nor gone.
LEMMA ReceivedKnown ==
    ASSUME OrdersTypeInv, OrdersKardexInv, OrdersKnownInv, NEW c \in Clerks, CommitReceive(c)
    PROVE  OrdersKnownInv'
  <1>1. c \in Served /\ End(c, "done") /\ itemLock' = ItemsReleased(c)
    BY DEF CommitReceive, Served
  <1>2. PICK o \in Orders, now \in [ItemId -> Nat] :
              /\ o = clerk[c].order /\ order[o].status \notin {"none", "DRAFT"}
              /\ Held(c) \subseteq ItemsOf(o)
              /\ \A i \in ItemId : /\ item'[i].order = item[i].order
                                   /\ i \notin Held(c) => item'[i] = item[i]
              /\ order' = [order EXCEPT ![o].status =
                              IF clerk[c].allReceived THEN "RECEIVED" ELSE "PARTIAL_RECEIVED"]
              /\ \A p \in Products : TracksStock(product'[p]) <=> TracksStock(product[p])
    BY ItemsReceived
  <1>3. order \in [Orders -> OrderRow] /\ o # None
    BY PurchaseOrdersAssumption DEF OrdersTypeInv, OrdersTypeOK
  <1>4. /\ order'[o].status \in {"RECEIVED", "PARTIAL_RECEIVED"}
        /\ \A x \in Orders : x # o => order'[x] = order[x]
    BY <1>2, <1>3 DEF OrderRow
  <1>5. FreshItems'
    <2>1. \A d \in Clerks : clerk'[d].pc = IF d = c THEN "done" ELSE clerk[d].pc
      BY <1>1, IdleClerkType DEF End, OrdersTypeInv, OrdersTypeOK
    <2>2. \A x \in Orders \cup Clerks, p \in Products : <<x, p>> \in ItemId
      BY DEF ItemId
    <2> QED BY <1>2, <2>1, <2>2 DEF OrdersKnownInv, FreshItems
  <1>6. OrderKnown(o)'
    <2>1. OrderKnown(o)
      BY DEF OrdersKnownInv
    <2>2. \A p \in Products : ItemsFor(o, p)' = ItemsFor(o, p)
      BY <1>2 DEF ItemsFor, ItemsOf
    <2> QED BY <1>4, <2>1, <2>2 DEF OrderKnown
  <1>7. /\ \A i \in ItemId, x \in Orders : x # o => (item'[i].order = x <=> item[i].order = x)
        /\ \A i \in ItemId : item'[i].order \notin {o, None} => item'[i] = item[i]
        /\ \A i \in ItemId : itemLock[i] # c /\ item[i].order = o => item'[i].order = o
    <2>1. \A i \in Held(c) : item[i].order = o
      BY <1>2 DEF ItemsOf
    <2> QED BY <1>2, <2>1
  <1>8. \A i \in ItemId, d \in Clerks : itemLock'[i] = d <=> d # c /\ itemLock[i] = d
    BY <1>1, PurchaseOrdersAssumption, InventoryAssumption DEF ItemsReleased
  <1>9. /\ \A p \in Products : TracksStock(product'[p]) <=> TracksStock(product[p])
        /\ c \in Served /\ End(c, "done") /\ o = clerk[c].order
        /\ order'[o].status # "none" /\ order'[o].status # "DRAFT"
    BY <1>1, <1>2, <1>4
  <1> QED BY ONLY OrdersTypeInv, OrdersKnownInv, <1>4, <1>5, <1>6, <1>7, <1>8, <1>9, KnownEnds

\* Every step keeps what the requests know, however they interleave.
LEMMA OrdersStepKnown ==
    ASSUME OrdersTypeInv, OrdersKardexInv, OrdersKnownInv, OrdersNext
    PROVE  OrdersKnownInv'
  BY OpenKnown, OpenReceiveKnown, RefusedKnown, UpdateKnown, ReceiptStepKnown, StatusKnown,
     ReplacedKnown, ReceivedKnown
  DEF OrdersNext, ClerkStep

\* So does a step of others.
LEMMA OrdersStutterKnown ==
    ASSUME OrdersTypeInv, OrdersKnownInv, UNCHANGED OrdersVars
    PROVE  OrdersKnownInv'
  <1>1. UNCHANGED <<product, order, item, itemLock, clerk>>
    BY DEF OrdersVars, ordersVars, inventoryVars
  <1>2. CreatesFirst' /\ FreshItems'
    BY <1>1 DEF OrdersKnownInv, CreatesFirst, FreshItems, Served
  <1>3. ASSUME NEW o \in Orders PROVE OrderKnown(o)'
    <2>1. OrderKnown(o)
      BY DEF OrdersKnownInv
    <2>2. ItemsOf(o)' = ItemsOf(o) /\ \A p \in Products : ItemsFor(o, p)' = ItemsFor(o, p)
      BY <1>1 DEF ItemsOf, ItemsFor
    <2> QED BY <1>1, <2>1, <2>2 DEF OrderKnown
  <1>4. ASSUME NEW d \in Clerks PROVE ClerkKnown(clerk[d], Held(d))'
    <2>1. ClerkKnown(clerk[d], Held(d))
      BY DEF OrdersKnownInv
    <2> QED BY <1>1, <2>1, StillKnown
  <1> QED BY <1>2, <1>3, <1>4 DEF OrdersKnownInv

\* The orders a behaviour starts with have received nothing, and no request knows of them.
LEMMA OrdersInitKnown ==
    ASSUME OrdersAloneInit
    PROVE  /\ OrdersKnownInv
           /\ \A o \in Orders :
                 /\ \A p \in Products : Ordered(o, p) = order[o].total[p] /\ Received(o, p) = 0
                 /\ order[o].total \in [Products -> 0..MaxOrdered]
                 /\ order[o].status \in {"none", "DRAFT", "PENDING"}
                 /\ order[o].status = "none" <=> order[o].total = NoLines
  <1>1. PICK status \in [Orders -> OpeningStatus], lines \in [Orders -> OrderLines \ {NoLines}] :
           /\ order = [o \in Orders |-> [status |-> status[o],
                 total |-> IF status[o] = "none" THEN NoLines ELSE lines[o]]]
           /\ item = [i \in ItemId |->
                 IF i[1] \in Orders /\ status[i[1]] # "none" /\ lines[i[1]][i[2]] > 0
                 THEN [order |-> i[1], qtyOrdered |-> lines[i[1]][i[2]], qtyReceived |-> 0]
                 ELSE NoItem]
    BY DEF OrdersAloneInit, OrdersInit
  <1>2. /\ \A c \in Clerks : clerk[c].pc = "idle" /\ Held(c) = {}
    BY IdleClerkType, PurchaseOrdersAssumption, InventoryAssumption
    DEF OrdersAloneInit, OrdersInit, Held
  <1>3. NoItem.order = None /\ None \notin Orders
    BY PurchaseOrdersAssumption DEF NoItem
  <1> DEFINE lined(i) == i[1] \in Orders /\ status[i[1]] # "none" /\ lines[i[1]][i[2]] > 0
  <1>4. ASSUME NEW i \in ItemId
        PROVE  /\ lined(i) => /\ item[i].order = i[1] /\ item[i].qtyReceived = 0
                              /\ item[i].qtyOrdered = lines[i[1]][i[2]]
               /\ ~lined(i) => item[i].order = None
    <2>1. lined(i) => item[i] = [order |-> i[1], qtyOrdered |-> lines[i[1]][i[2]], qtyReceived |-> 0]
      BY <1>1
    <2>2. ~lined(i) => item[i] = NoItem
      BY <1>1
    <2> HIDE DEF lined
    <2> QED BY <1>3, <2>1, <2>2
  <1>5. FreshItems /\ CreatesFirst
    <2>1. \A x \in Orders \cup Clerks, p \in Products : <<x, p>> \in ItemId /\ <<x, p>>[1] = x
      BY DEF ItemId
    <2>2. \A c \in Clerks : c \notin Orders
      BY PurchaseOrdersAssumption
    <2> QED BY <1>2, <1>4, <2>1, <2>2 DEF FreshItems, CreatesFirst
  <1>6. ASSUME NEW o \in Orders, NEW p \in Products
        PROVE  /\ lined(<<o, p>>) => ItemsFor(o, p) = {<<o, p>>}
               /\ ~lined(<<o, p>>) => ItemsFor(o, p) = {}
    <2>1. <<o, p>> \in ItemId /\ <<o, p>>[1] = o /\ <<o, p>>[2] = p /\ ProductOf(<<o, p>>) = p
      BY DEF ItemId, ProductOf
    <2>2. ASSUME NEW i \in ItemsFor(o, p)
          PROVE  i = <<o, p>> /\ lined(i)
      <3>1. i \in ItemId /\ item[i].order = o /\ i[2] = p
        BY DEF ItemsFor, ItemsOf, ProductOf
      <3>2. lined(i) /\ i[1] = o
        BY <1>3, <1>4, <3>1
      <3> HIDE DEF lined
      <3> QED BY <3>1, <3>2 DEF ItemId
    <2>3. lined(<<o, p>>) => <<o, p>> \in ItemsFor(o, p)
      BY <1>4, <2>1 DEF ItemsFor, ItemsOf
    <2> HIDE DEF lined
    <2> QED BY <2>2, <2>3
  <1>7. ASSUME NEW o \in Orders
        PROVE  /\ order[o].status = status[o] /\ status[o] \in {"none", "DRAFT", "PENDING"}
               /\ order[o].total = (IF status[o] = "none" THEN NoLines ELSE lines[o])
               /\ order[o].total \in [Products -> 0..MaxOrdered] /\ lines[o] # NoLines
               /\ lines[o] \in [Products -> 0..MaxOrdered]
    <2>1. NoLines \in [Products -> 0..MaxOrdered]
      BY PurchaseOrdersAssumption DEF NoLines
    <2>2. lines[o] \in OrderLines \ {NoLines} /\ status[o] \in {"none", "DRAFT", "PENDING"}
      BY PurchaseOrdersAssumption
    <2> QED BY <1>1, <2>1, <2>2 DEF OrderLines
  <1>8. ASSUME NEW o \in Orders PROVE OrderKnown(o)
    <2>1. ASSUME NEW i \in ItemsOf(o)
          PROVE  item[i].qtyReceived = 0 /\ status[o] # "none"
      <3>1. i \in ItemId /\ item[i].order = o
        BY DEF ItemsOf
      <3>2. lined(i)
        BY <1>3, <1>4, <3>1
      <3>3. i[1] = o
        BY <1>4, <3>1, <3>2
      <3>4. status[i[1]] # "none"
        BY <3>2
      <3> QED BY <1>4, <3>1, <3>2, <3>3, <3>4
    <2>2. \A i \in ItemsOf(o) : item[i].qtyReceived = 0 /\ status[o] # "none"
      BY <2>1
    <2>3. ASSUME NEW p \in Products PROVE IsFiniteSet(ItemsFor(o, p))
      <3>1. ItemsFor(o, p) = {<<o, p>>} \/ ItemsFor(o, p) = {}
        <4> HIDE DEF lined
        <4> QED BY <1>6
      <3>2. IsFiniteSet({<<o, p>>}) /\ IsFiniteSet({})
        BY FS_EmptySet, FS_Singleton
      <3> QED BY ONLY <3>1, <3>2
    <2> QED BY <1>7, <2>2, <2>3 DEF OrderKnown
  <1>9. ASSUME NEW c \in Clerks PROVE ClerkKnown(clerk[c], Held(c))
    BY <1>2 DEF ClerkKnown, UpdatingStates, ReceivingStates
  <1>10. ASSUME NEW o \in Orders, NEW p \in Products
         PROVE  Ordered(o, p) = order[o].total[p] /\ Received(o, p) = 0
    <2>1. <<o, p>> \in ItemId /\ <<o, p>>[1] = o /\ <<o, p>>[2] = p
      BY DEF ItemId
    <2>2. CASE lined(<<o, p>>)
      <3>1. /\ QtyOrdered[<<o, p>>] = lines[o][p] /\ QtyReceived[<<o, p>>] = 0
            /\ status[o] # "none" /\ lines[o][p] \in Int
        <4>1. status[<<o, p>>[1]] # "none"
          BY <2>2
        <4>2. item[<<o, p>>].qtyOrdered = lines[o][p] /\ item[<<o, p>>].qtyReceived = 0
          <5> HIDE DEF lined
          <5>1. PICK i \in ItemId : i = <<o, p>> /\ i[1] = o /\ i[2] = p /\ lined(i)
            BY <2>1, <2>2
          <5>2. item[i].qtyReceived = 0 /\ item[i].qtyOrdered = lines[i[1]][i[2]]
            BY <1>4, <5>1
          <5> QED BY <5>1, <5>2
        <4>3. lines[o][p] \in 0..MaxOrdered
          BY <1>7
        <4> HIDE DEF lined
        <4> QED BY <2>1, <4>1, <4>2, <4>3 DEF QtyOrdered, QtyReceived
      <3>2. /\ SumFunctionOnSet(QtyOrdered, {<<o, p>>}) = QtyOrdered[<<o, p>>]
            /\ SumFunctionOnSet(QtyReceived, {<<o, p>>}) = QtyReceived[<<o, p>>]
        <4>1. PICK i, f, g : i = <<o, p>> /\ f = QtyOrdered /\ g = QtyReceived
          OBVIOUS
        <4>2. f[i] \in Int /\ g[i] \in Int
          BY <3>1, <4>1
        <4>3. SumFunctionOnSet(f, {i}) = f[i] /\ SumFunctionOnSet(g, {i}) = g[i]
          BY ONLY <4>2, SumOne
        <4> QED BY ONLY <4>1, <4>3
      <3> QED BY <1>6, <1>7, <2>2, <3>1, <3>2 DEF Ordered, Received
    <2>3. CASE ~lined(<<o, p>>)
      <3>1. status[o] # "none" => lines[o][p] = 0
        <4>1. ~(status[o] # "none" /\ lines[o][p] > 0)
          BY <2>1, <2>3
        <4>2. lines[o][p] \in 0..MaxOrdered
          BY <1>7
        <4> QED BY <4>1, <4>2, PurchaseOrdersAssumption
      <3>2. order[o].total[p] = 0
        BY <1>7, <3>1 DEF NoLines
      <3> QED BY <1>6, <2>3, <3>2, SumEmpty DEF Ordered, Received
    <2> QED BY <2>2, <2>3
  <1> QED BY <1>5, <1>7, <1>8, <1>9, <1>10 DEF OrdersKnownInv


\* The columns of the book.
Statuses == [o \in Orders |-> order[o].status]
OrderedUnits == [o \in Orders |-> [p \in Products |-> Ordered(o, p)]]
ReceivedUnits == [o \in Orders |-> [p \in Products |-> Received(o, p)]]
OnHand == [p \in Products |-> product[p].stock]
KeptInStock == {p \in Products : TracksStock(product[p])}

\* A step that leaves an order's items alone leaves its columns in the book.
LEMMA OthersInBook ==
    ASSUME OrdersKnownInv, NEW x \in Orders,
           \A i \in ItemId : item'[i].order = x <=> item[i].order = x,
           \A i \in ItemId : item[i].order = x => item'[i] = item[i],
           NEW p \in Products
    PROVE  Ordered(x, p)' = Ordered(x, p) /\ Received(x, p)' = Received(x, p)
  <1>1. PICK S, asked, got, askedNext, gotNext :
           /\ S = ItemsFor(x, p) /\ asked = QtyOrdered /\ got = QtyReceived
           /\ askedNext = QtyOrdered' /\ gotNext = QtyReceived'
    OBVIOUS
  <1>2. IsFiniteSet(S)
    BY <1>1 DEF OrdersKnownInv, OrderKnown
  <1>3. ItemsFor(x, p)' = S
    BY <1>1 DEF ItemsFor, ItemsOf
  <1>4. \A i \in S : askedNext[i] = asked[i] /\ gotNext[i] = got[i]
    BY <1>1 DEF ItemsFor, ItemsOf, QtyOrdered, QtyReceived
  <1>5. /\ SumFunctionOnSet(askedNext, S) = SumFunctionOnSet(asked, S)
        /\ SumFunctionOnSet(gotNext, S) = SumFunctionOnSet(got, S)
    BY ONLY <1>2, <1>4, SumSame
  <1> QED BY <1>1, <1>3, <1>5 DEF Ordered, Received

\* What a step that writes o does to the columns.
LEMMA BookRow ==
    ASSUME NEW o \in Orders, NEW s, NEW units, NEW got,
           order'[o].status = s,
           units = [p \in Products |-> units[p]], got = [p \in Products |-> got[p]],
           \A p \in Products : Ordered(o, p)' = units[p] /\ Received(o, p)' = got[p],
           \A x \in Orders \ {o} : order'[x] = order[x],
           \A x \in Orders \ {o}, p \in Products :
              Ordered(x, p)' = Ordered(x, p) /\ Received(x, p)' = Received(x, p)
    PROVE  /\ Statuses' = [Statuses EXCEPT ![o] = s]
           /\ OrderedUnits' = [OrderedUnits EXCEPT ![o] = units]
           /\ ReceivedUnits' = [ReceivedUnits EXCEPT ![o] = got]
  <1>1. Statuses' = [Statuses EXCEPT ![o] = s]
    BY DEF Statuses
  <1>2. OrderedUnits' = [OrderedUnits EXCEPT ![o] = units]
    <2>1. OrderedUnits' = [x \in Orders |-> [p \in Products |-> Ordered(x, p)']]
      BY DEF OrderedUnits
    <2>2. [p \in Products |-> Ordered(o, p)'] = units
      OBVIOUS
    <2>3. \A x \in Orders \ {o} : [p \in Products |-> Ordered(x, p)'] = [p \in Products |-> Ordered(x, p)]
      OBVIOUS
    <2> QED BY <2>1, <2>2, <2>3 DEF OrderedUnits
  <1>3. ReceivedUnits' = [ReceivedUnits EXCEPT ![o] = got]
    <2>1. ReceivedUnits' = [x \in Orders |-> [p \in Products |-> Received(x, p)']]
      BY DEF ReceivedUnits
    <2>2. [p \in Products |-> Received(o, p)'] = got
      OBVIOUS
    <2>3. \A x \in Orders \ {o} : [p \in Products |-> Received(x, p)'] = [p \in Products |-> Received(x, p)]
      OBVIOUS
    <2> QED BY <2>1, <2>2, <2>3 DEF ReceivedUnits
  <1> QED BY <1>1, <1>2, <1>3

\* Products that do not change are in the book as they were.
LEMMA StockInBook ==
    ASSUME UNCHANGED product
    PROVE  OnHand' = OnHand /\ KeptInStock' = KeptInStock
  BY DEF OnHand, KeptInStock, TracksStock

\* A draft, or what is not an order yet, received nothing.
LEMMA NothingReceived ==
    ASSUME OrdersKnownInv, NEW o \in Orders, order[o].status \in {"none", "DRAFT"}, NEW p \in Products
    PROVE  Received(o, p) = 0
  <1>1. PICK S, got : S = ItemsFor(o, p) /\ got = QtyReceived
    OBVIOUS
  <1>2. IsFiniteSet(S)
    BY <1>1 DEF OrdersKnownInv, OrderKnown
  <1>3. \A i \in S : got[i] = 0
    BY <1>1 DEF OrdersKnownInv, OrderKnown, ItemsFor, ItemsOf, QtyReceived
  <1>4. SumFunctionOnSet(got, S) = 0
    BY ONLY <1>2, <1>3, SumZero
  <1> QED BY <1>1, <1>4 DEF Received

\* A creation, or an update nobody overtook, leaves the new items to a draft, and only
\* those.
LEMMA DraftIsWritten ==
    ASSUME OrdersTypeInv, OrdersKardexInv, OrdersKnownInv, NEW c \in Clerks,
           CreateOrder(c) \/ CommitUpdate(c), ~OutOfDate(c)
    PROVE  \E o \in Orders, lines \in [Products -> 0..MaxOrdered] :
              /\ order[o].status \in {"none", "DRAFT"} /\ lines # NoLines
              /\ order'[o].status = "DRAFT"
              /\ \A p \in Products : Ordered(o, p)' = lines[p] /\ Received(o, p)' = 0
              /\ \A x \in Orders \ {o} :
                    /\ order'[x] = order[x]
                    /\ \A i \in ItemId : /\ item'[i].order = x <=> item[i].order = x
                                         /\ item[i].order = x => item'[i] = item[i]
  <1>1. PICK o \in Orders, w \in Orders \cup Clerks, lines \in [Products -> 0..MaxOrdered] :
              /\ o = clerk[c].order /\ w \in {o, c} /\ lines # NoLines /\ Held(c) \subseteq ItemsOf(o)
              /\ \A i \in NewItems(w, lines) :
                    /\ i \in ItemId /\ i[1] = w /\ item[i].order = None
                    /\ item'[i].order = o /\ item'[i].qtyReceived = 0
                    /\ item'[i].qtyOrdered = lines[ProductOf(i)]
              /\ \A i \in ItemId \ NewItems(w, lines) :
                    item'[i] = IF i \in Held(c) THEN NoItem ELSE item[i]
              /\ order'[o].status = IF order[o].status = "none" THEN "DRAFT" ELSE order[o].status
              /\ \A x \in Orders : x # o => order'[x] = order[x]
    BY ItemsReplaced
  <1>2. NoItem.order = None /\ None \notin Orders
    BY PurchaseOrdersAssumption DEF NoItem
  <1>3. order[o].status \in {"none", "DRAFT"} /\ ItemsOf(o) \subseteq Held(c)
    <2>1. CASE CreateOrder(c)
      <3>1. clerk[c].pc = "creating"
        BY <2>1 DEF CreateOrder
      <3>2. order[o].status = "none"
        BY <1>1, <3>1 DEF OrdersKnownInv, ClerkKnown
      <3> QED BY <3>2 DEF OrdersKnownInv, OrderKnown
    <2>2. CASE CommitUpdate(c)
      <3>1. clerk[c].pc = "inserting"
        BY <2>2 DEF CommitUpdate
      <3>2. Editable(o) /\ \A i \in ItemsOf(o) : itemLock[i] = c
        BY <1>1, <3>1 DEF OutOfDate
      <3> QED BY <3>2 DEF Editable, Held, ItemsOf
    <2> QED BY <2>1, <2>2
  <1>4. order'[o].status = "DRAFT"
    BY <1>1, <1>3
  <1>5. \A i \in ItemId : item'[i].order = o <=> i \in NewItems(w, lines)
    <2> SUFFICES ASSUME NEW i \in ItemId PROVE item'[i].order = o <=> i \in NewItems(w, lines)
      OBVIOUS
    <2>1. i \notin NewItems(w, lines) /\ i \in Held(c) => item'[i].order = None
      BY <1>1, <1>2
    <2>2. i \notin NewItems(w, lines) /\ i \notin Held(c) => item'[i] = item[i] /\ item[i].order # o
      BY <1>1, <1>3 DEF ItemsOf
    <2> QED BY <1>1, <1>2, <2>1, <2>2
  <1>6. ASSUME NEW p \in Products
        PROVE  Ordered(o, p)' = lines[p] /\ Received(o, p)' = 0
    <2>1. /\ \A i \in NewItems(w, lines) : i \in ItemId /\ i[1] = w
          /\ \A i, j \in NewItems(w, lines) : ProductOf(i) = ProductOf(j) => i = j
          /\ (\A i \in NewItems(w, lines) : ProductOf(i) # p) => lines[p] = 0
      BY ONLY NewItemsParts
    <2>2. ItemsFor(o, p)' = {i \in NewItems(w, lines) : ProductOf(i) = p}
      BY <1>5, <2>1 DEF ItemsFor, ItemsOf
    <2>3. CASE \E i \in NewItems(w, lines) : ProductOf(i) = p
      <3>1. PICK i \in NewItems(w, lines) : ProductOf(i) = p
        BY <2>3
      <3>2. ItemsFor(o, p)' = {i}
        BY <2>1, <2>2, <3>1
      <3>3. PICK asked, got : asked = QtyOrdered' /\ got = QtyReceived'
        OBVIOUS
      <3>4. asked[i] = lines[p] /\ got[i] = 0 /\ lines[p] \in Int
        <4>1. lines[p] \in Int
          BY PurchaseOrdersAssumption
        <4> QED BY <1>1, <2>1, <3>1, <3>3, <4>1 DEF QtyOrdered, QtyReceived
      <3>5. SumFunctionOnSet(asked, {i}) = asked[i] /\ SumFunctionOnSet(got, {i}) = got[i]
        BY ONLY <3>4, SumOne
      <3> QED BY <3>2, <3>3, <3>4, <3>5 DEF Ordered, Received
    <2>4. CASE \A i \in NewItems(w, lines) : ProductOf(i) # p
      <3>1. ItemsFor(o, p)' = {} /\ lines[p] = 0
        BY <2>1, <2>2, <2>4
      <3>2. PICK asked, got : asked = QtyOrdered' /\ got = QtyReceived'
        OBVIOUS
      <3>3. SumFunctionOnSet(asked, {}) = 0 /\ SumFunctionOnSet(got, {}) = 0
        BY ONLY SumEmpty
      <3> QED BY <3>1, <3>2, <3>3 DEF Ordered, Received
    <2> QED BY <2>3, <2>4
  <1>7. ASSUME NEW x \in Orders \ {o}, NEW i \in ItemId
        PROVE  /\ item'[i].order = x <=> item[i].order = x
               /\ item[i].order = x => item'[i] = item[i]
    <2>1. i \in Held(c) => item[i].order = o
      BY <1>1 DEF ItemsOf
    <2>2. i \in NewItems(w, lines) => item'[i].order = o /\ item[i].order = None
      BY <1>1
    <2>3. i \notin NewItems(w, lines) /\ i \in Held(c) => item'[i].order = None
      BY <1>1, <1>2
    <2>4. i \notin NewItems(w, lines) /\ i \notin Held(c) => item'[i] = item[i]
      BY <1>1
    <2>5. x # o /\ x # None
      BY <1>2
    <2> QED BY <2>1, <2>2, <2>3, <2>4, <2>5
  <1>8. \A x \in Orders \ {o} : order'[x] = order[x]
    BY <1>1
  <1>9. lines # NoLines
    BY <1>1
  <1>10. WITNESS o \in Orders, lines \in [Products -> 0..MaxOrdered]
  <1> QED BY ONLY <1>3, <1>4, <1>6, <1>7, <1>8, <1>9

\* Such a step is a draft of the book.
LEMMA BookDraft ==
    ASSUME OrdersTypeInv, OrdersKardexInv, OrdersKnownInv, NEW c \in Clerks,
           CreateOrder(c) \/ CommitUpdate(c), ~OutOfDate(c)
    PROVE  OrdersBook!Next
  <1>1. PICK o \in Orders, lines \in [Products -> 0..MaxOrdered] :
              /\ order[o].status \in {"none", "DRAFT"} /\ lines # NoLines
              /\ order'[o].status = "DRAFT"
              /\ \A p \in Products : Ordered(o, p)' = lines[p] /\ Received(o, p)' = 0
              /\ \A x \in Orders \ {o} :
                    /\ order'[x] = order[x]
                    /\ \A i \in ItemId : /\ item'[i].order = x <=> item[i].order = x
                                         /\ item[i].order = x => item'[i] = item[i]
    BY DraftIsWritten
  <1>2. \A p \in Products : Received(o, p) = 0
    BY <1>1, NothingReceived
  <1>3. \A x \in Orders \ {o}, p \in Products :
           Ordered(x, p)' = Ordered(x, p) /\ Received(x, p)' = Received(x, p)
    BY <1>1, OthersInBook
  <1>4. /\ Statuses' = [Statuses EXCEPT ![o] = "DRAFT"]
        /\ OrderedUnits' = [OrderedUnits EXCEPT ![o] = lines]
        /\ ReceivedUnits' = [ReceivedUnits EXCEPT ![o] = NoLines]
    <2>1. lines = [p \in Products |-> lines[p]] /\ NoLines = [p \in Products |-> NoLines[p]]
          /\ \A p \in Products : NoLines[p] = 0
      BY DEF NoLines
    <2>2. \A p \in Products : Ordered(o, p)' = lines[p] /\ Received(o, p)' = NoLines[p]
      BY <1>1, <2>1
    <2>3. order'[o].status = "DRAFT" /\ \A x \in Orders \ {o} : order'[x] = order[x]
      BY <1>1
    <2> QED BY ONLY <1>3, <2>1, <2>2, <2>3, BookRow
  <1>5. ReceivedUnits' = ReceivedUnits
    <2>1. ReceivedUnits[o] = NoLines
      BY <1>2 DEF ReceivedUnits, NoLines
    <2>2. [ReceivedUnits EXCEPT ![o] = ReceivedUnits[o]] = ReceivedUnits
      BY DEF ReceivedUnits
    <2> QED BY <1>4, <2>1, <2>2
  <1>6. OnHand' = OnHand /\ KeptInStock' = KeptInStock
    <2>1. UNCHANGED product
      BY DEF CreateOrder, CommitUpdate, inventoryVars
    <2> QED BY <2>1, StockInBook
  <1>7. Statuses[o] \in {"none", "DRAFT"}
    BY <1>1 DEF Statuses
  <1>8. OrdersBook!Draft(o)
    <2>1. lines \in OrdersBook!Units /\ lines # OrdersBook!Nothing
      BY <1>1 DEF OrdersBook!Units, OrdersBook!Nothing, NoLines
    <2> QED BY <1>4, <1>5, <1>6, <1>7, <2>1
        DEF OrdersBook!Draft, Statuses, OrderedUnits, ReceivedUnits, OnHand, KeptInStock
  <1> QED BY <1>8 DEF OrdersBook!Next

\* A confirmation or a cancellation nobody overtook is one of the book.
LEMMA BookStatus ==
    ASSUME OrdersTypeInv, OrdersKnownInv, NEW c \in Clerks, Confirm(c) \/ Cancel(c), ~OutOfDate(c)
    PROVE  OrdersBook!Next
  <1>1. clerk[c].pc \in {"confirming", "cancelling"} /\ UNCHANGED <<product, item>>
    BY DEF Confirm, Cancel, inventoryVars
  <1>2. PICK o \in Orders : o = clerk[c].order
    BY <1>1 DEF OrdersKnownInv, ClerkKnown
  <1>3. PICK s \in {"PENDING", "CANCELLED"} :
           /\ order' = [order EXCEPT ![o].status = s]
           /\ s = "PENDING" => order[o].status = "DRAFT"
           /\ s = "CANCELLED" => order[o].status \in {"DRAFT", "PENDING"}
    BY <1>2 DEF Confirm, Cancel, OutOfDate, Confirmable, Cancellable
  <1>4. order \in [Orders -> OrderRow]
    BY DEF OrdersTypeInv, OrdersTypeOK
  <1>5. order'[o].status = s /\ \A x \in Orders \ {o} : order'[x] = order[x]
    BY <1>3, <1>4 DEF OrderRow
  <1>6. \A x \in Orders, p \in Products : Ordered(x, p)' = Ordered(x, p) /\ Received(x, p)' = Received(x, p)
    BY <1>1 DEF Ordered, Received, QtyOrdered, QtyReceived, ItemsFor, ItemsOf
  <1>7. /\ Statuses' = [Statuses EXCEPT ![o] = s]
        /\ OrderedUnits' = OrderedUnits /\ ReceivedUnits' = ReceivedUnits
    BY <1>5, <1>6 DEF Statuses, OrderedUnits, ReceivedUnits
  <1>8. OnHand' = OnHand /\ KeptInStock' = KeptInStock
    BY <1>1, StockInBook
  <1>9. /\ s = "PENDING" => Statuses[o] = "DRAFT"
        /\ s = "CANCELLED" => Statuses[o] \in {"DRAFT", "PENDING"}
    BY <1>3 DEF Statuses
  <1>10. OrdersBook!Confirm(o) \/ OrdersBook!Cancel(o)
    BY <1>7, <1>8, <1>9
    DEF OrdersBook!Confirm, OrdersBook!Cancel, Statuses, OrderedUnits, ReceivedUnits, OnHand, KeptInStock
  <1> QED BY <1>10 DEF OrdersBook!Next

\* What a receipt nobody overtook does to the columns: all the units it was asked for
\* came in, within what was ordered.
LEMMA ReceiptIsWritten ==
    ASSUME OrdersTypeInv, OrdersKardexInv, OrdersKnownInv, NEW c \in Clerks,
           CommitReceive(c), ~OutOfDate(c)
    PROVE  \E o \in Orders, units \in [Products -> Nat], s \in {"RECEIVED", "PARTIAL_RECEIVED"} :
              /\ order[o].status \in {"PENDING", "PARTIAL_RECEIVED"}
              /\ \E p \in Products : units[p] > 0
              /\ \A p \in Products :
                    /\ Received(o, p) \in Nat /\ Ordered(o, p) \in Nat
                    /\ Ordered(o, p)' = Ordered(o, p)
                    /\ Received(o, p)' = Received(o, p) + units[p]
                    /\ Received(o, p) + units[p] <= Ordered(o, p)
              /\ s = "RECEIVED" <=> \A p \in Products : Received(o, p)' = Ordered(o, p)
              /\ order'[o].status = s
              /\ \A x \in Orders \ {o} :
                    /\ order'[x] = order[x]
                    /\ \A i \in ItemId : /\ item'[i].order = x <=> item[i].order = x
                                         /\ item[i].order = x => item'[i] = item[i]
              /\ \A p \in Products :
                    /\ TracksStock(product'[p]) <=> TracksStock(product[p])
                    /\ product'[p].stock = product[p].stock + IF TracksStock(product[p]) THEN units[p] ELSE 0
  <1>1. PICK o \in Orders, now \in [ItemId -> Nat] :
              /\ o = clerk[c].order /\ now = clerk[c].now
              /\ order[o].status \notin {"none", "DRAFT"}
              /\ \A i \in ItemId : i \in Held(c) <=> now[i] > 0
              /\ Held(c) \subseteq ItemsOf(o) /\ Held(c) # {}
              /\ \A i \in ItemId : /\ item'[i].order = item[i].order
                                   /\ item'[i].qtyOrdered = item[i].qtyOrdered
                                   /\ item'[i].qtyReceived = item[i].qtyReceived + now[i]
                                   /\ i \notin Held(c) => item'[i] = item[i]
              /\ order' = [order EXCEPT ![o].status =
                              IF clerk[c].allReceived THEN "RECEIVED" ELSE "PARTIAL_RECEIVED"]
              /\ \A p \in Products :
                    /\ TracksStock(product'[p]) <=> TracksStock(product[p])
                    /\ IsFiniteSet(OfProduct(Held(c), p))
                    /\ product'[p].stock = product[p].stock +
                          IF TracksStock(product[p]) THEN SumFunctionOnSet(now, OfProduct(Held(c), p)) ELSE 0
    BY ItemsReceived
  <1>2. /\ Receivable(o) /\ clerk[c].allReceived = AllReceived(c)
        /\ \A i \in ItemsOf(o) : ~(ReceivedSeenBy(c, i) > item[i].qtyOrdered)
    <2>1. clerk[c].pc = "closing"
      BY DEF CommitReceive
    <2> QED BY <1>1, <2>1 DEF OutOfDate
  <1>3. \A i \in ItemId : /\ item[i].qtyReceived \in Nat /\ item[i].qtyOrdered \in Nat /\ now[i] \in Nat
                          /\ i \notin Held(c) => now[i] = 0
    <2>1. \A i \in ItemId : item[i] \in ItemRow /\ now[i] \in Nat
      BY DEF OrdersTypeInv, OrdersTypeOK
    <2> QED BY <1>1, <2>1 DEF ItemRow
  <1>4. ASSUME NEW i \in ItemsOf(o)
        PROVE  /\ i \in ItemId /\ item'[i].qtyReceived <= item[i].qtyOrdered
               /\ ReceivedSeenBy(c, i) = item'[i].qtyReceived
    <2>1. i \in ItemId
      BY DEF ItemsOf
    <2>2. itemLock[i] = c <=> i \in Held(c)
      BY <2>1 DEF Held
    <2>3. ReceivedSeenBy(c, i) = item[i].qtyReceived + now[i]
      BY <1>1, <1>3, <2>1, <2>2 DEF ReceivedSeenBy
    <2> QED BY <1>1, <1>2, <1>3, <2>1, <2>3
  <1>5. clerk[c].allReceived <=> \A i \in ItemsOf(o) : item'[i].qtyReceived = item[i].qtyOrdered
    <2>1. AllReceived(c) <=> \A i \in ItemsOf(o) : item'[i].qtyReceived >= item[i].qtyOrdered
      BY <1>1, <1>4 DEF AllReceived
    <2>2. \A i \in ItemsOf(o) : /\ item'[i].qtyReceived \in Int /\ item[i].qtyOrdered \in Int
                                /\ item'[i].qtyReceived <= item[i].qtyOrdered
      BY <1>1, <1>3, <1>4
    <2>3. (\A i \in ItemsOf(o) : item'[i].qtyReceived >= item[i].qtyOrdered)
             <=> \A i \in ItemsOf(o) : item'[i].qtyReceived = item[i].qtyOrdered
      BY ONLY <2>2
    <2> QED BY <1>2, <2>1, <2>3
  <1> DEFINE came(p) == SumFunctionOnSet(now, OfProduct(Held(c), p))
  <1>6. ASSUME NEW p \in Products
        PROVE  /\ Received(o, p) \in Nat /\ Ordered(o, p) \in Nat /\ came(p) \in Nat
               /\ Ordered(o, p)' = Ordered(o, p)
               /\ Received(o, p)' = Received(o, p) + came(p)
               /\ Received(o, p) + came(p) <= Ordered(o, p)
               /\ Received(o, p)' = Ordered(o, p)
                     <=> \A i \in ItemsFor(o, p) : item'[i].qtyReceived = item[i].qtyOrdered
               /\ \A i \in OfProduct(Held(c), p) : now[i] <= came(p)
    <2>1. PICK S, part, asked, got, askedNext, gotNext :
             /\ S = ItemsFor(o, p) /\ part = OfProduct(Held(c), p)
             /\ asked = QtyOrdered /\ got = QtyReceived
             /\ askedNext = QtyOrdered' /\ gotNext = QtyReceived'
      OBVIOUS
    <2>2. IsFiniteSet(S) /\ IsFiniteSet(part) /\ ItemsFor(o, p)' = S
      <3>1. ItemsFor(o, p)' = ItemsFor(o, p)
        BY <1>1 DEF ItemsFor, ItemsOf
      <3>2. IsFiniteSet(ItemsFor(o, p))
        BY DEF OrdersKnownInv, OrderKnown
      <3> QED BY <1>1, <2>1, <3>1, <3>2
    <2>3. S \subseteq ItemId /\ S \subseteq ItemsOf(o) /\ part \subseteq S /\ \A i \in S \ part : now[i] = 0
      BY <1>1, <1>3, <2>1 DEF ItemsFor, ItemsOf, OfProduct
    <2>4. \A i \in S : /\ asked[i] = item[i].qtyOrdered /\ got[i] = item[i].qtyReceived
                       /\ askedNext[i] = item[i].qtyOrdered /\ gotNext[i] = item'[i].qtyReceived
      BY <1>1, <2>1, <2>3 DEF QtyOrdered, QtyReceived
    <2>5. \A i \in S : /\ asked[i] \in Nat /\ got[i] \in Nat /\ gotNext[i] \in Nat /\ now[i] \in Nat
                       /\ askedNext[i] = asked[i] /\ gotNext[i] = got[i] + 1 * now[i]
                       /\ gotNext[i] <= asked[i]
      <3> SUFFICES ASSUME NEW i \in S
                   PROVE  /\ asked[i] \in Nat /\ got[i] \in Nat /\ gotNext[i] \in Nat /\ now[i] \in Nat
                          /\ askedNext[i] = asked[i] /\ gotNext[i] = got[i] + 1 * now[i]
                          /\ gotNext[i] <= asked[i]
        OBVIOUS
      <3>1. i \in ItemId /\ i \in ItemsOf(o)
        BY <2>3
      <3>2. item'[i].qtyReceived = item[i].qtyReceived + now[i] /\ item'[i].qtyReceived <= item[i].qtyOrdered
        BY <1>1, <1>4, <3>1
      <3> QED BY <1>3, <2>4, <3>1, <3>2
    <2>6. SumFunctionOnSet(askedNext, S) = SumFunctionOnSet(asked, S)
      BY ONLY <2>2, <2>5, SumSame
    <2>7. SumFunctionOnSet(gotNext, S) = SumFunctionOnSet(got, S) + 1 * SumFunctionOnSet(now, S)
      <3>1. \A i \in S : got[i] \in Int /\ now[i] \in Int /\ gotNext[i] = got[i] + 1 * now[i]
        BY ONLY <2>5
      <3>2. 1 \in Int
        OBVIOUS
      <3> QED BY ONLY <2>2, <3>1, <3>2, SumLinear
    <2>8. SumFunctionOnSet(now, S) = SumFunctionOnSet(now, part)
      <3>1. \A i \in part : now[i] \in Int
        BY <2>3, <2>5
      <3> QED BY ONLY <2>2, <2>3, <3>1, SumSupport
    <2>9. /\ SumFunctionOnSet(gotNext, S) \in Nat /\ SumFunctionOnSet(asked, S) \in Nat
          /\ SumFunctionOnSet(gotNext, S) <= SumFunctionOnSet(asked, S)
          /\ SumFunctionOnSet(gotNext, S) = SumFunctionOnSet(asked, S) <=> \A i \in S : gotNext[i] = asked[i]
      BY ONLY <2>2, <2>5, SumFits
    <2>10. SumFunctionOnSet(got, S) \in Nat
      BY ONLY <2>2, <2>5, SumPositive
    <2>11. SumFunctionOnSet(now, part) \in Nat /\ \A i \in part : now[i] <= SumFunctionOnSet(now, part)
      <3>1. \A i \in part : now[i] \in Nat
        BY <2>3, <2>5
      <3> QED BY ONLY <2>2, <3>1, SumPositive
    <2>12. /\ Ordered(o, p) = SumFunctionOnSet(asked, S) /\ Received(o, p) = SumFunctionOnSet(got, S)
           /\ Ordered(o, p)' = SumFunctionOnSet(askedNext, S)
           /\ Received(o, p)' = SumFunctionOnSet(gotNext, S)
           /\ came(p) = SumFunctionOnSet(now, part)
      BY <2>1, <2>2 DEF Ordered, Received
    <2>13. \A i \in S : gotNext[i] = asked[i] <=> item'[i].qtyReceived = item[i].qtyOrdered
      BY <2>4
    <2>14. Received(o, p)' = Received(o, p) + came(p)
      BY ONLY <2>7, <2>8, <2>10, <2>11, <2>12
    <2> HIDE DEF came
    <2>15. Received(o, p)' = Ordered(o, p)
              <=> \A i \in ItemsFor(o, p) : item'[i].qtyReceived = item[i].qtyOrdered
      BY <2>1, <2>9, <2>12, <2>13
    <2>16. \A i \in OfProduct(Held(c), p) : now[i] <= came(p)
      BY <2>1, <2>11, <2>12
    <2>17. Received(o, p) + came(p) <= Ordered(o, p)
      BY <2>9, <2>12, <2>14
    <2> QED BY <2>6, <2>9, <2>10, <2>11, <2>12, <2>14, <2>15, <2>16, <2>17
  <1> DEFINE units == [p \in Products |-> came(p)]
             s == IF clerk[c].allReceived THEN "RECEIVED" ELSE "PARTIAL_RECEIVED"
  <1> HIDE DEF came
  <1>7. units \in [Products -> Nat] /\ \A p \in Products : units[p] = came(p)
    BY <1>6
  <1>8. \E p \in Products : units[p] > 0
    <2>1. PICK i \in Held(c) : i \in ItemId /\ ProductOf(i) \in Products /\ now[i] > 0 /\ i \in OfProduct(Held(c), ProductOf(i))
      BY <1>1, ItemParts DEF Held, OfProduct
    <2>2. PICK p \in Products : p = ProductOf(i)
      BY <2>1
    <2>3. now[i] <= came(p) /\ came(p) \in Nat /\ now[i] \in Nat
      BY <1>6, <2>1, <2>2
    <2> QED BY <1>7, <2>1, <2>3
  <1>9. clerk[c].allReceived <=> \A p \in Products : Received(o, p)' = Ordered(o, p)
    <2>1. \A i \in ItemsOf(o) : ProductOf(i) \in Products /\ i \in ItemsFor(o, ProductOf(i))
      BY ItemParts DEF ItemsFor, ItemsOf
    <2>2. \A p \in Products : ItemsFor(o, p) \subseteq ItemsOf(o)
      BY DEF ItemsFor
    <2> QED BY <1>5, <1>6, <2>1, <2>2
  <1>10. order'[o].status = s /\ \A x \in Orders \ {o} : order'[x] = order[x]
    <2>1. order \in [Orders -> OrderRow]
      BY DEF OrdersTypeInv, OrdersTypeOK
    <2> QED BY <1>1, <2>1 DEF OrderRow
  <1>11. s \in {"RECEIVED", "PARTIAL_RECEIVED"} /\ (s = "RECEIVED" <=> clerk[c].allReceived)
    OBVIOUS
  <1>12. \A x \in Orders \ {o} : \A i \in ItemId : /\ item'[i].order = x <=> item[i].order = x
                                                   /\ item[i].order = x => item'[i] = item[i]
    <2>1. \A i \in Held(c) : item[i].order = o
      BY <1>1 DEF ItemsOf
    <2> QED BY <1>1, <2>1
  <1>13. \A p \in Products :
                    /\ TracksStock(product'[p]) <=> TracksStock(product[p])
                    /\ product'[p].stock = product[p].stock + IF TracksStock(product[p]) THEN units[p] ELSE 0
    BY <1>1, <1>7 DEF came
  <1>14. order[o].status \in {"PENDING", "PARTIAL_RECEIVED"}
    BY <1>2 DEF Receivable
  <1> HIDE DEF units, s
  <1>15. \A p \in Products :
                    /\ Received(o, p) \in Nat /\ Ordered(o, p) \in Nat
                    /\ Ordered(o, p)' = Ordered(o, p)
                    /\ Received(o, p)' = Received(o, p) + units[p]
                    /\ Received(o, p) + units[p] <= Ordered(o, p)
    BY <1>6, <1>7
  <1>16. s = "RECEIVED" <=> \A p \in Products : Received(o, p)' = Ordered(o, p)
    BY <1>9, <1>11
  <1>17. \A x \in Orders \ {o} :
                    /\ order'[x] = order[x]
                    /\ \A i \in ItemId : /\ item'[i].order = x <=> item[i].order = x
                                         /\ item[i].order = x => item'[i] = item[i]
    <2> SUFFICES ASSUME NEW x \in Orders \ {o}
                 PROVE  /\ order'[x] = order[x]
                        /\ \A i \in ItemId : /\ item'[i].order = x <=> item[i].order = x
                                             /\ item[i].order = x => item'[i] = item[i]
      OBVIOUS
    <2>1. order'[x] = order[x]
      BY <1>10
    <2>2. \A i \in ItemId : /\ item'[i].order = x <=> item[i].order = x
                            /\ item[i].order = x => item'[i] = item[i]
      BY <1>12, Zenon
    <2> QED BY ONLY <2>1, <2>2, Zenon
  <1>18. order'[o].status = s
    BY <1>10
  <1> USE <1>7, <1>11
  <1>19. WITNESS o \in Orders, units \in [Products -> Nat], s \in {"RECEIVED", "PARTIAL_RECEIVED"}
  <1> QED BY ONLY <1>8, <1>13, <1>14, <1>15, <1>16, <1>17, <1>18, Zenon

\* Such a commit is a receipt of the book.
LEMMA BookReceive ==
    ASSUME OrdersTypeInv, OrdersKardexInv, OrdersKnownInv, NEW c \in Clerks,
           CommitReceive(c), ~OutOfDate(c)
    PROVE  OrdersBook!Next
  <1>1. PICK o \in Orders, units \in [Products -> Nat], s \in {"RECEIVED", "PARTIAL_RECEIVED"} :
              /\ order[o].status \in {"PENDING", "PARTIAL_RECEIVED"}
              /\ \E p \in Products : units[p] > 0
              /\ \A p \in Products :
                    /\ Received(o, p) \in Nat /\ Ordered(o, p) \in Nat
                    /\ Ordered(o, p)' = Ordered(o, p)
                    /\ Received(o, p)' = Received(o, p) + units[p]
                    /\ Received(o, p) + units[p] <= Ordered(o, p)
              /\ s = "RECEIVED" <=> \A p \in Products : Received(o, p)' = Ordered(o, p)
              /\ order'[o].status = s
              /\ \A x \in Orders \ {o} :
                    /\ order'[x] = order[x]
                    /\ \A i \in ItemId : /\ item'[i].order = x <=> item[i].order = x
                                         /\ item[i].order = x => item'[i] = item[i]
              /\ \A p \in Products :
                    /\ TracksStock(product'[p]) <=> TracksStock(product[p])
                    /\ product'[p].stock = product[p].stock + IF TracksStock(product[p]) THEN units[p] ELSE 0
    BY ReceiptIsWritten
  <1>2. \A x \in Orders \ {o}, p \in Products :
           Ordered(x, p)' = Ordered(x, p) /\ Received(x, p)' = Received(x, p)
    BY <1>1, OthersInBook
  <1> DEFINE asked == [p \in Products |-> Ordered(o, p)]
             old == [p \in Products |-> Received(o, p)]
             new == [p \in Products |-> Received(o, p) + units[p]]
  <1>3. /\ OrderedUnits[o] = asked /\ ReceivedUnits[o] = old
        /\ Statuses[o] \in {"PENDING", "PARTIAL_RECEIVED"}
    BY <1>1 DEF OrderedUnits, ReceivedUnits, Statuses
  <1>4. PICK wanted, got : wanted = asked /\ got = new
    OBVIOUS
  <1>5. /\ Statuses' = [Statuses EXCEPT ![o] = s]
        /\ OrderedUnits' = [OrderedUnits EXCEPT ![o] = wanted]
        /\ ReceivedUnits' = [ReceivedUnits EXCEPT ![o] = got]
    <2>1. wanted = [p \in Products |-> wanted[p]] /\ got = [p \in Products |-> got[p]]
      BY <1>4
    <2>2. \A p \in Products : Ordered(o, p)' = wanted[p] /\ Received(o, p)' = got[p]
      BY <1>1, <1>4
    <2>3. order'[o].status = s /\ \A x \in Orders \ {o} : order'[x] = order[x]
      BY <1>1
    <2> QED BY ONLY <1>2, <2>1, <2>2, <2>3, BookRow
  <1>6. OrderedUnits' = OrderedUnits
    <2>1. [OrderedUnits EXCEPT ![o] = OrderedUnits[o]] = OrderedUnits
      BY DEF OrderedUnits
    <2> QED BY <1>3, <1>4, <1>5, <2>1
  <1>7. KeptInStock' = KeptInStock
    BY <1>1 DEF KeptInStock
  <1>8. OnHand' = [p \in Products |-> IF p \in KeptInStock THEN OnHand[p] + units[p] ELSE OnHand[p]]
    <2>1. \A p \in Products : product[p].stock \in Int
      BY DEF OrdersTypeInv, OrdersTypeOK, InventoryTypeOK, ProductRow
    <2>2. \A p \in Products :
             product'[p].stock = IF TracksStock(product[p]) THEN product[p].stock + units[p] ELSE product[p].stock
      BY <1>1, <2>1
    <2> QED BY <2>2 DEF OnHand, KeptInStock
  <1>9. ReceivedUnits'[o] = got /\ OrderedUnits[o] = wanted /\ ReceivedUnits[o] = old
        /\ \A x \in Orders \ {o} : ReceivedUnits'[x] = ReceivedUnits[x]
    BY <1>3, <1>4, <1>5 DEF ReceivedUnits
  <1>10. Statuses' = [Statuses EXCEPT ![o] =
            IF ReceivedUnits'[o] = OrderedUnits[o] THEN "RECEIVED" ELSE "PARTIAL_RECEIVED"]
    <2>1. got = wanted <=> \A p \in Products : Received(o, p)' = Ordered(o, p)
      <3>1. \A p \in Products : got[p] = Received(o, p)' /\ wanted[p] = Ordered(o, p)
        BY <1>1, <1>4
      <3>2. got = [p \in Products |-> got[p]] /\ wanted = [p \in Products |-> wanted[p]]
        BY <1>4
      <3> QED BY ONLY <3>1, <3>2
    <2>2. s = IF got = wanted THEN "RECEIVED" ELSE "PARTIAL_RECEIVED"
      BY <1>1, <2>1
    <2> QED BY <1>5, <1>9, <2>2
  <1>11. \A p \in Products : /\ ReceivedUnits'[o][p] - ReceivedUnits[o][p] = units[p]
                             /\ ReceivedUnits'[o][p] <= OrderedUnits[o][p]
    BY <1>1, <1>4, <1>9
  <1>12. PICK came : came = [p \in Products |-> ReceivedUnits'[o][p] - ReceivedUnits[o][p]]
    OBVIOUS
  <1> HIDE DEF asked, old, new
  <1>13. came = units
    BY <1>11, <1>12
  <1>14. came \in [Products -> Nat] /\ came # OrdersBook!Nothing
    BY <1>1, <1>13 DEF OrdersBook!Nothing
  <1>15. OrdersBook!Receive(o)
    <2>1. OnHand' = [p \in Products |-> IF p \in KeptInStock THEN OnHand[p] + came[p] ELSE OnHand[p]]
      BY <1>8, <1>13
    <2>2. [p \in Products |-> ReceivedUnits'[o][p] - ReceivedUnits[o][p]] = came
      BY <1>12
    <2> QED BY <1>3, <1>6, <1>7, <1>9, <1>10, <1>11, <1>14, <2>1, <2>2
        DEF OrdersBook!Receive, Statuses, OrderedUnits, ReceivedUnits, OnHand, KeptInStock
  <1> QED BY <1>15 DEF OrdersBook!Next

\* Steps that leave the orders, the items and the products alone are none of the book.
LEMMA BookStutter ==
    ASSUME UNCHANGED <<product, order, item>>
    PROVE  UNCHANGED OrdersBook!bookVars
  <1>1. \A x \in Orders, p \in Products : Ordered(x, p)' = Ordered(x, p) /\ Received(x, p)' = Received(x, p)
    BY DEF Ordered, Received, QtyOrdered, QtyReceived, ItemsFor, ItemsOf
  <1>2. Statuses' = Statuses /\ OrderedUnits' = OrderedUnits /\ ReceivedUnits' = ReceivedUnits
    BY <1>1 DEF Statuses, OrderedUnits, ReceivedUnits
  <1>3. OnHand' = OnHand /\ KeptInStock' = KeptInStock
    BY StockInBook
  <1> QED BY <1>2, <1>3
          DEF OrdersBook!bookVars, Statuses, OrderedUnits, ReceivedUnits, OnHand, KeptInStock

\* Every step of the service is a step of the book, or none, or the commit of a request
\* that was overtaken.
LEMMA BookStep ==
    ASSUME OrdersTypeInv, OrdersKardexInv, OrdersKnownInv, [OrdersNext]_OrdersVars
    PROVE  [(\E c \in Clerks : StaleEnd(c)) \/ OrdersBook!Next]_(OrdersBook!bookVars)
  <1>1. ASSUME NEW c \in Clerks,
               CreateOrder(c) \/ CommitUpdate(c) \/ Confirm(c) \/ Cancel(c) \/ CommitReceive(c)
        PROVE  (\E d \in Clerks : StaleEnd(d)) \/ OrdersBook!Next
    <2>1. CASE OutOfDate(c)
      <3>1. clerk[c].pc # "done" /\ End(c, "done")
        BY <1>1 DEF CreateOrder, CommitUpdate, Confirm, Cancel, CommitReceive
      <3>2. clerk'[c].pc = "done"
        BY <3>1, IdleClerkType DEF End, OrdersTypeInv, OrdersTypeOK
      <3> QED BY <2>1, <3>1, <3>2 DEF StaleEnd
    <2>2. CASE ~OutOfDate(c)
      BY <1>1, <2>2, BookDraft, BookStatus, BookReceive
    <2> QED BY <2>1, <2>2
  <1>2. UNCHANGED <<product, order, item>> => UNCHANGED OrdersBook!bookVars
    BY BookStutter
  <1>3. ASSUME NEW c \in Clerks, NEW o \in Orders,
               \/ OpenCreate(c, o) \/ OpenUpdate(c, o) \/ OpenConfirm(c, o)
               \/ OpenCancel(c, o) \/ OpenReceive(c, o) \/ RefuseClerk(c, o)
        PROVE  UNCHANGED <<product, order, item>>
    BY <1>3 DEF OpenCreate, OpenUpdate, OpenConfirm, OpenCancel, OpenReceive, RefuseClerk, inventoryVars
  <1>4. ASSUME NEW c \in Clerks,
               \/ SelectItems(c) \/ DeleteItems(c) \/ (\E i \in ItemId : CheckItem(c, i))
               \/ ReadProduct(c) \/ AddStock(c) \/ CountItem(c) \/ ReadItems(c)
               \/ RefuseWrite(c) \/ AbortClerk(c)
        PROVE  UNCHANGED <<product, order, item>>
    BY <1>4 DEF SelectItems, DeleteItems, CheckItem, ReadProduct, AddStock, CountItem, ReadItems,
                RefuseWrite, AbortClerk, inventoryVars
  <1>5. UNCHANGED OrdersVars => UNCHANGED <<product, order, item>>
    BY DEF OrdersVars, inventoryVars, ordersVars
  <1>6. \/ \E c \in Clerks :
              CreateOrder(c) \/ CommitUpdate(c) \/ Confirm(c) \/ Cancel(c) \/ CommitReceive(c)
        \/ UNCHANGED <<product, order, item>>
    BY <1>3, <1>4, <1>5 DEF OrdersNext, ClerkStep
  <1>7. CASE \E c \in Clerks :
                CreateOrder(c) \/ CommitUpdate(c) \/ Confirm(c) \/ Cancel(c) \/ CommitReceive(c)
    <2>1. (\E d \in Clerks : StaleEnd(d)) \/ OrdersBook!Next
      BY <1>1, <1>7
    <2> QED BY <2>1
  <1>8. CASE UNCHANGED <<product, order, item>>
    <2>1. UNCHANGED OrdersBook!bookVars
      BY <1>2, <1>8
    <2> QED BY <2>1
  <1> QED BY <1>6, <1>7, <1>8

\* The orders a behaviour starts with are in the book.
LEMMA BookInit == OrdersAloneInit => OrdersBook!Init
  <1> SUFFICES ASSUME OrdersAloneInit PROVE OrdersBook!Init
    OBVIOUS
  <1>1. \A o \in Orders :
           /\ \A p \in Products : Ordered(o, p) = order[o].total[p] /\ Received(o, p) = 0
           /\ order[o].total \in [Products -> 0..MaxOrdered]
           /\ order[o].status \in {"none", "DRAFT", "PENDING"}
           /\ order[o].status = "none" <=> order[o].total = NoLines
    BY OrdersInitKnown
  <1>2. /\ Statuses \in [Orders -> {"none", "DRAFT", "PENDING"}]
        /\ OrderedUnits \in [Orders -> OrdersBook!Units]
        /\ \A o \in Orders : Statuses[o] = "none" <=> OrderedUnits[o] = OrdersBook!Nothing
        /\ ReceivedUnits = [o \in Orders |-> OrdersBook!Nothing]
    <2>1. Statuses \in [Orders -> {"none", "DRAFT", "PENDING"}]
      BY <1>1 DEF Statuses
    <2>2. ASSUME NEW o \in Orders
          PROVE  OrderedUnits[o] = order[o].total /\ OrderedUnits[o] \in [Products -> 0..MaxOrdered]
      BY <1>1 DEF OrderedUnits
    <2>3. OrderedUnits \in [Orders -> [Products -> 0..MaxOrdered]]
      BY <2>2 DEF OrderedUnits
    <2>4. \A o \in Orders : Statuses[o] = "none" <=> OrderedUnits[o] = NoLines
      BY <1>1, <2>2 DEF Statuses
    <2>5. ReceivedUnits = [o \in Orders |-> NoLines]
      BY <1>1 DEF ReceivedUnits, NoLines
    <2> QED BY <2>1, <2>3, <2>4, <2>5 DEF OrdersBook!Units, OrdersBook!Nothing, NoLines
  <1>3. OnHand \in [Products -> Nat]
    <2>1. \A p \in Products : product[p].stock \in Nat
      BY InventoryInitType DEF OrdersAloneInit
    <2> QED BY <2>1 DEF OnHand
  <1> QED BY <1>2, <1>3
          DEF OrdersBook!Init, Statuses, OrderedUnits, ReceivedUnits, OnHand, KeptInStock

\* However the requests cross, fail and wait for each other, the service follows the
\* purchase book: every order goes through its lifecycle, never gets more than it ordered,
\* and what it gets enters stock; only the commit of a request that was overtaken, which
\* no write of the service checks, may leave the book.
THEOREM OrdersAreTheBook == OrdersSpec => ImplementsPurchaseBook
  <1> DEFINE Known == OrdersTypeInv /\ OrdersKardexInv /\ OrdersKnownInv
  <1>1. OrdersAloneInit => Known /\ OrdersBook!Init
    BY OrdersKardexInit, OrdersInitKnown, BookInit
  <1>2. Known /\ [OrdersNext]_OrdersVars
           => Known' /\ [(\E c \in Clerks : StaleEnd(c)) \/ OrdersBook!Next]_(OrdersBook!bookVars)
    <2> SUFFICES ASSUME OrdersTypeInv, OrdersKardexInv, OrdersKnownInv, [OrdersNext]_OrdersVars
                 PROVE  /\ OrdersTypeInv' /\ OrdersKardexInv' /\ OrdersKnownInv'
                        /\ [(\E c \in Clerks : StaleEnd(c)) \/ OrdersBook!Next]_(OrdersBook!bookVars)
      OBVIOUS
    <2>1. OrdersTypeInv' /\ OrdersKardexInv'
      BY OrdersKardexStep
    <2>2. OrdersKnownInv'
      BY OrdersStepKnown, OrdersStutterKnown
    <2> QED BY <2>1, <2>2, BookStep
  <1> HIDE DEF Known
  <1> QED BY <1>1, <1>2, PTL DEF OrdersSpec, ImplementsPurchaseBook

-----------------------------------------------------------------------------
(* The three services *)

StoreTypeInv == SalesTypeInv /\ ProductsTypeInv /\ OrdersTypeInv

\* The three services start from the same well-formed inventory.
LEMMA StoreInitType == StoreInit => StoreTypeInv
  BY SalesInitTypeOK, ProductsInitType, OrdersInitType DEF StoreInit, StoreTypeInv

\* A step of one service keeps its own state well formed by that service's lemma,
\* and the others' because it leaves their local states alone.
LEMMA StoreStepType == StoreTypeInv /\ [StoreNext]_storeVars => StoreTypeInv'
  <1> SUFFICES ASSUME StoreTypeInv, [StoreNext]_storeVars PROVE StoreTypeInv'
    OBVIOUS
  <1>0. SalesTypeInv /\ ProductsTypeInv /\ OrdersTypeInv
    BY DEF StoreTypeInv
  <1>1. CASE SalesNext /\ UNCHANGED <<edit, ordersVars>>
    <2>1. SalesTypeInv'
      BY <1>0, <1>1, SalesStepTypeOK
    <2>2. InventoryTypeOK'
      BY <2>1 DEF SalesTypeInv, SalesTypeOK
    <2>3. ProductsTypeInv'
      BY <1>0, <1>1, <2>2, ProductsStutterType
    <2>4. OrdersTypeInv'
      BY <1>0, <1>1, <2>2, OrdersStutterType
    <2> QED BY <2>1, <2>3, <2>4 DEF StoreTypeInv
  <1>2. CASE ProductsNext(Referenced) /\ UNCHANGED <<salesVars, ordersVars>>
    <2>1. ProductsTypeInv'
      BY <1>0, <1>2, ProductsStepType
    <2>2. InventoryTypeOK'
      BY <2>1 DEF ProductsTypeInv, ProductsTypeOK
    <2>3. SalesTypeInv'
      BY <1>0, <1>2, <2>2 DEF SalesTypeInv, SalesTypeOK, salesVars, VoidsNameSales
    <2>4. OrdersTypeInv'
      BY <1>0, <1>2, <2>2, OrdersStutterType
    <2> QED BY <2>1, <2>3, <2>4 DEF StoreTypeInv
  <1>3. CASE OrdersNext /\ UNCHANGED <<salesVars, edit>>
    <2>1. OrdersTypeInv'
      BY <1>0, <1>3, OrdersStepType
    <2>2. InventoryTypeOK'
      BY <2>1 DEF OrdersTypeInv, OrdersTypeOK
    <2>3. SalesTypeInv'
      BY <1>0, <1>3, <2>2 DEF SalesTypeInv, SalesTypeOK, salesVars, VoidsNameSales
    <2>4. ProductsTypeInv'
      BY <1>0, <1>3, <2>2, ProductsStutterType
    <2> QED BY <2>1, <2>3, <2>4 DEF StoreTypeInv
  <1>4. CASE UNCHANGED storeVars
    <2>1. UNCHANGED inventoryVars /\ UNCHANGED salesVars /\ UNCHANGED edit /\ UNCHANGED ordersVars
      BY <1>4 DEF storeVars
    <2>2. InventoryTypeOK'
      BY <1>0, <2>1, InventoryStutter DEF OrdersTypeInv, OrdersTypeOK
    <2>3. SalesTypeInv'
      BY <1>0, <2>1, <2>2 DEF SalesTypeInv, SalesTypeOK, salesVars, VoidsNameSales
    <2>4. ProductsTypeInv' /\ OrdersTypeInv'
      BY <1>0, <2>1, <2>2, ProductsStutterType, OrdersStutterType
    <2> QED BY <2>3, <2>4 DEF StoreTypeInv
  <1> QED BY <1>1, <1>2, <1>3, <1>4 DEF StoreNext

\* Every table and every request of the three services is always well formed.
THEOREM StoreTypeCorrect == StoreSafetySpec => []StoreTypeOK
  <1>1. StoreSafetySpec => []StoreTypeInv
    BY StoreInitType, StoreStepType, PTL DEF StoreSafetySpec
  <1>2. StoreTypeInv => StoreTypeOK
    BY DEF StoreTypeInv, StoreTypeOK, SalesTypeInv, ProductsTypeInv, OrdersTypeInv
  <1> QED BY <1>1, <1>2, PTL

-----------------------------------------------------------------------------
(* Stock never goes below zero *)

\* An edit rewrites the stock it read: it must not have read a debt.
EditsSeeNoDebt == \A e \in Editors : edit[e].pc = "read" => edit[e].seen.stock >= 0

\* What the three kinds of writers store: an absolute stock computed from an
\* earlier read, the stock an edit read, and what the product holds now.
StoreStockInv == StockInv /\ EditsSeeNoDebt

\* Edits, conversions, creations and removals store no debt.
LEMMA ProductsStepStock ==
    ASSUME ProductsTypeInv, NeverOversold, EditsSeeNoDebt, NEW referenced,
           ProductsNext(referenced)
    PROVE  NeverOversold' /\ EditsSeeNoDebt'
  <1>0. /\ product \in [Products -> ProductRow] /\ edit \in [Editors -> Edit]
        /\ \A p \in Products : product[p].stock \in Int /\ product[p].stock >= 0
    BY DEF ProductsTypeInv, ProductsTypeOK, InventoryTypeOK, ProductRow, NeverOversold
  <1> USE DEF ProductsTypeInv
  <1>1. ASSUME NEW e \in Editors, NEW p \in Products, CreateProduct(e, p)
        PROVE  NeverOversold' /\ EditsSeeNoDebt'
    <2>1. PICK row \in ProductRow, local \in Edit :
             /\ product' = [product EXCEPT ![p] = row] /\ edit' = [edit EXCEPT ![e] = local]
             /\ row.stock \in Nat /\ local.pc # "read"
      BY <1>1, CreateEffect
    <2>2. NeverOversold'
      BY <1>0, <2>1 DEF NeverOversold
    <2>3. EditsSeeNoDebt'
      BY <1>0, <2>1 DEF EditsSeeNoDebt
    <2> QED BY <2>2, <2>3
  <1>2. ASSUME NEW e \in Editors, NEW p \in Products, OpenEdit(e, p)
        PROVE  NeverOversold' /\ EditsSeeNoDebt'
    <2>1. PICK local \in Edit : edit' = [edit EXCEPT ![e] = local] /\ local.seen = product[p]
      BY <1>2, OpenEffect
    <2>2. product' = product
      BY <1>2 DEF OpenEdit, inventoryVars
    <2>3. NeverOversold'
      BY <1>0, <2>2 DEF NeverOversold
    <2>4. EditsSeeNoDebt'
      BY <1>0, <2>1 DEF EditsSeeNoDebt
    <2> QED BY <2>3, <2>4
  <1>3. ASSUME NEW e \in Editors, WriteProduct(e)
        PROVE  NeverOversold' /\ EditsSeeNoDebt'
    <2>1. edit[e].product \in Products /\ edit[e].seen.stock >= 0
      BY <1>3 DEF WriteProduct, EditsNameProducts, EditsSeeNoDebt
    <2>2. PICK row \in ProductRow, local \in Edit :
             /\ product' = [product EXCEPT ![edit[e].product] = row]
             /\ edit' = [edit EXCEPT ![e] = local]
             /\ row.stock >= 0 /\ local.pc = "written"
      BY <1>3, <2>1, WriteEffect
    <2>3. NeverOversold'
      BY <1>0, <2>2 DEF NeverOversold
    <2>4. EditsSeeNoDebt'
      BY <1>0, <2>2 DEF EditsSeeNoDebt
    <2> QED BY <2>3, <2>4
  <1>4. ASSUME NEW e \in Editors,
               \/ \E p \in Products : RefuseEdit(e, p)
               \/ ConflictEdit(e) \/ ReadBack(e) \/ LogMovement(e) \/ StopEdit(e)
        PROVE  NeverOversold' /\ EditsSeeNoDebt'
    <2>1. product' = product
      BY <1>4, OtherEffect
    <2>2. PICK local \in Edit : edit' = [edit EXCEPT ![e] = local] /\ local.pc # "read"
      BY <1>4, OtherEffect, PcEffect
    <2>3. NeverOversold'
      BY <1>0, <2>1 DEF NeverOversold
    <2>4. EditsSeeNoDebt'
      BY <1>0, <2>2 DEF EditsSeeNoDebt
    <2> QED BY <2>3, <2>4
  <1>5. ASSUME NEW p \in Products, Deactivate(p) \/ Reactivate(p) \/ Remove(p, referenced)
        PROVE  NeverOversold' /\ EditsSeeNoDebt'
    <2>1. edit' = edit /\ \E row \in ProductRow :
                /\ product' = [product EXCEPT ![p] = row]
                /\ row.stock \in {product[p].stock, 0}
      BY <1>5, AdminEffect
    <2>2. NeverOversold'
      BY <1>0, <2>1 DEF NeverOversold
    <2>3. EditsSeeNoDebt'
      BY <2>1 DEF EditsSeeNoDebt
    <2> QED BY <2>2, <2>3
  <1> QED BY <1>1, <1>2, <1>3, <1>4, <1>5 DEF ProductsNext, EditStep

\* A receipt adds to the stock; no other step of the purchase orders writes it.
LEMMA OrdersStepStock ==
    ASSUME OrdersTypeInv, NeverOversold, OrdersNext
    PROVE  NeverOversold'
  <1>0. product \in [Products -> ProductRow]
    BY DEF OrdersTypeInv, OrdersTypeOK, InventoryTypeOK
  <1>1. ASSUME NEW c \in Clerks, CommitReceive(c)
        PROVE  NeverOversold'
    <2> SUFFICES ASSUME NEW p \in Products PROVE product'[p].stock >= 0
      BY DEF NeverOversold
    <2>1. /\ product[p] \in ProductRow /\ product[p].stock \in Int /\ product[p].stock >= 0
          /\ clerk[c].add[p] \in Nat
      BY <1>0 DEF NeverOversold, ProductRow, OrdersTypeInv, OrdersTypeOK, Clerk
    <2>2. StockReceived(c, p) \in Int /\ StockReceived(c, p) >= 0
      BY <2>1 DEF StockReceived
    <2>3. \/ product'[p] = product[p]
          \/ product'[p] = [product[p] EXCEPT !.stock = StockReceived(c, p),
                                              !.version = @ + Len(clerk[c].rows[p])]
      BY <1>1 DEF CommitReceive
    <2> HIDE DEF StockReceived
    <2> QED BY <2>1, <2>2, <2>3 DEF ProductRow
  <1>2. ASSUME ~ \E c \in Clerks : CommitReceive(c)
        PROVE  product' = product
    <2>1. ASSUME NEW c \in Clerks, NEW o \in Orders,
                 OpenCreate(c, o) \/ OpenUpdate(c, o) \/ OpenConfirm(c, o)
          PROVE  product' = product
      BY <2>1 DEF OpenCreate, OpenUpdate, OpenConfirm, inventoryVars
    <2>2. ASSUME NEW c \in Clerks, NEW o \in Orders,
                 OpenCancel(c, o) \/ OpenReceive(c, o) \/ RefuseClerk(c, o)
          PROVE  product' = product
      BY <2>2 DEF OpenCancel, OpenReceive, RefuseClerk, inventoryVars
    <2>3. ASSUME NEW c \in Clerks,
                 \/ CreateOrder(c) \/ SelectItems(c) \/ DeleteItems(c) \/ CommitUpdate(c)
                 \/ Confirm(c) \/ Cancel(c)
          PROVE  product' = product
      BY <2>3 DEF CreateOrder, SelectItems, DeleteItems, CommitUpdate, Confirm, Cancel,
                  inventoryVars
    <2>4. ASSUME NEW c \in Clerks,
                 \/ \E i \in ItemId : CheckItem(c, i)
                 \/ ReadProduct(c) \/ AddStock(c) \/ CountItem(c) \/ ReadItems(c)
          PROVE  product' = product
      BY <2>4 DEF CheckItem, ReadProduct, AddStock, CountItem, ReadItems, inventoryVars
    <2>5. ASSUME NEW c \in Clerks, RefuseWrite(c) \/ AbortClerk(c)
          PROVE  product' = product
      BY <2>5 DEF RefuseWrite, AbortClerk
    <2> QED BY <1>2, <2>1, <2>2, <2>3, <2>4, <2>5 DEF OrdersNext, ClerkStep
  <1> QED BY <1>1, <1>2 DEF NeverOversold

\* No step of any service makes a debt, or a local state that could.
LEMMA StoreStepStock ==
    StoreTypeInv /\ StoreStockInv /\ [StoreNext]_storeVars => StoreStockInv'
  <1> SUFFICES ASSUME StoreTypeInv, StoreStockInv, [StoreNext]_storeVars PROVE StoreStockInv'
    OBVIOUS
  <1> USE DEF StoreTypeInv, StoreStockInv
  <1>1. CASE SalesNext /\ UNCHANGED <<edit, ordersVars>>
    <2>1. StockInv'
      BY <1>1, SalesStepStock
    <2> QED BY <1>1, <2>1 DEF EditsSeeNoDebt
  <1>2. CASE ProductsNext(Referenced) /\ UNCHANGED <<salesVars, ordersVars>>
    <2>1. NeverOversold' /\ EditsSeeNoDebt'
      BY <1>2, ProductsStepStock DEF StockInv
    <2> QED BY <1>2, <2>1 DEF StockInv, RestockNonNegative, salesVars
  <1>3. CASE OrdersNext /\ UNCHANGED <<salesVars, edit>>
    <2>1. NeverOversold'
      BY <1>3, OrdersStepStock DEF StockInv
    <2> QED BY <1>3, <2>1 DEF StockInv, RestockNonNegative, salesVars, EditsSeeNoDebt
  <1>4. CASE UNCHANGED storeVars
    BY <1>4 DEF storeVars, inventoryVars, salesVars, StockInv, NeverOversold,
                RestockNonNegative, EditsSeeNoDebt
  <1> QED BY <1>1, <1>2, <1>3, <1>4 DEF StoreNext

\* Sales, edits and receipts together never leave a product with negative stock,
\* for any number of them: no database constraint says so, and two of the three
\* services store absolute values computed from stale reads.
THEOREM StoreNeverOversold == StoreSafetySpec => []NeverOversold
  <1>1. StoreInit => StoreStockInv
    BY SalesInitStock DEF StoreInit, StoreStockInv, EditsSeeNoDebt, ProductsInit
  <1>2. StoreSafetySpec => [](StoreTypeInv /\ StoreStockInv)
    BY <1>1, StoreInitType, StoreStepType, StoreStepStock, PTL DEF StoreSafetySpec
  <1>3. StoreStockInv => NeverOversold
    BY DEF StoreStockInv, StockInv
  <1> QED BY <1>2, <1>3, PTL
=============================================================================
