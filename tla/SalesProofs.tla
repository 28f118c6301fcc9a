------------------------------ MODULE SalesProofs ------------------------------
(* Type correctness and safety of Sales, for every number of products,       *)
(* checkouts, voids and units.                                               *)
EXTENDS Sales, InventoryProofs

\* SaleMovement is a kardex row.
LEMMA SaleMovementType ==
    ASSUME SalesTypeOK, NEW c \in Cashiers, NEW p \in Products
    PROVE  SaleMovement(c, p) \in Movement
  <1>1. product[p].stock \in Int /\ checkout[c].basket[p] \in Int
    BY DEF SalesTypeOK, InventoryTypeOK, ProductRow, Checkout, Quantities
  <1>2. c \in Documents \cup {None} /\ "SALE" \in MovementType
    BY SalesAssumption DEF MovementType
  <1> QED BY <1>1, <1>2, MovementRowType DEF SaleMovement

\* ReturnMovement is a kardex row, once the void has a sale.
LEMMA ReturnMovementType ==
    ASSUME SalesTypeOK, NEW v \in Voiders, NEW p \in Products, void[v].sale \in Cashiers
    PROVE  ReturnMovement(v, p) \in Movement
  <1>1. void[v].restock[p] \in Int /\ sale[void[v].sale].items[p] \in Int
    BY DEF SalesTypeOK, Void, SaleRow, Quantities
  <1>2. void[v].sale \in Documents \cup {None} /\ "RETURN" \in MovementType
    BY SalesAssumption DEF MovementType
  <1> QED BY <1>1, <1>2, MovementRowType DEF ReturnMovement

\* A void that opens gets a sale, and a new local state of its own.
LEMMA OpenVoidRow ==
    ASSUME SalesTypeOK, NEW v \in Voiders, NEW s \in Cashiers, OpenVoid(v, s)
    PROVE  \E row \in Void : /\ void' = [void EXCEPT ![v] = row]
                             /\ row.sale = s /\ row.restock = void[v].restock
                             /\ row.pc \in {"restocking", "marking"}
  <1> DEFINE full == [void[v] EXCEPT !.pc = "restocking", !.sale = s,
                                     !.todo = Lines(sale[s].items)]
             partial == [void[v] EXCEPT !.pc = "marking", !.sale = s]
  <1>1. void[v] \in Void /\ Lines(sale[s].items) \in SUBSET Products
    BY DEF SalesTypeOK, Lines
  <1>2. /\ full \in Void /\ full.sale = s /\ full.restock = void[v].restock
        /\ full.pc = "restocking"
    BY <1>1 DEF Void
  <1>3. /\ partial \in Void /\ partial.sale = s /\ partial.restock = void[v].restock
        /\ partial.pc = "marking"
    BY <1>1 DEF Void
  <1>4. void' = [void EXCEPT ![v] = full] \/ void' = [void EXCEPT ![v] = partial]
    BY DEF OpenVoid
  <1> HIDE DEF full, partial
  <1> QED BY <1>2, <1>3, <1>4

\* A step of a void that only moves its program counter.
LEMMA VoidMoves ==
    ASSUME SalesTypeOK, NEW v \in Voiders,
           NEW pc \in {"idle", "restocking", "writing", "marking", "done", "refused"},
           void' = [void EXCEPT ![v].pc = pc]
    PROVE  /\ void' \in [Voiders -> Void]
           /\ void'[v].pc = pc
           /\ \A w \in Voiders : /\ void'[w].sale = void[w].sale
                                 /\ void'[w].todo = void[w].todo
                                 /\ void'[w].current = void[w].current
                                 /\ void'[w].restock = void[w].restock
                                 /\ w # v => void'[w].pc = void[w].pc
  <1> DEFINE row == [void[v] EXCEPT !.pc = pc]
  <1>1. void[v] \in Void
    BY DEF SalesTypeOK
  <1>2. /\ row \in Void /\ row.pc = pc /\ row.sale = void[v].sale /\ row.todo = void[v].todo
        /\ row.current = void[v].current /\ row.restock = void[v].restock
    BY <1>1 DEF Void
  <1>3. void' = [void EXCEPT ![v] = row]
    OBVIOUS
  <1> HIDE DEF row
  <1> QED BY <1>2, <1>3 DEF SalesTypeOK

\* A void that is under way names a sale, and one that is writing names a product
\* and the sale's quantities are those it restocks with.
VoidsNameSales ==
    \A v \in Voiders :
        /\ void[v].pc \in {"restocking", "writing", "marking"} => void[v].sale \in Cashiers
        /\ void[v].pc = "writing" => void[v].current \in Products

SalesTypeInv == SalesTypeOK /\ VoidsNameSales

\* What reading one item changes of a void, the restock it computes included.
LEMMA ReadItemKeeps ==
    ASSUME SalesTypeInv, NEW v \in Voiders, NEW p \in Products, ReadItem(v, p)
    PROVE  /\ void' \in [Voiders -> Void]
           /\ void'[v].pc \in {"restocking", "writing"}
           /\ void'[v].pc = "writing" => void'[v].current = p
           /\ \A w \in Voiders : /\ void'[w].sale = void[w].sale
                                 /\ w # v => void'[w] = void[w]
           /\ \A w \in Voiders, q \in Products : void'[w].restock[q] \in
                {void[w].restock[q], product[p].stock + sale[void[v].sale].items[p]}
  <1> DEFINE n == product[p].stock + sale[void[v].sale].items[p]
             restock == [void[v].restock EXCEPT ![p] = n]
             tracked == [void[v] EXCEPT !.pc = "writing", !.todo = @ \ {p}, !.current = p,
                                        !.restock = restock]
             untracked == [void[v] EXCEPT !.todo = @ \ {p}]
  <1> USE DEF SalesTypeInv
  <1>0. n \in Int
    <2>1. void[v].sale \in Cashiers
      BY DEF ReadItem, VoidsNameSales
    <2> QED BY <2>1 DEF SalesTypeOK, SaleRow, Quantities, InventoryTypeOK, ProductRow
  <1>1. void[v] \in Void /\ void[v].pc = "restocking"
    BY DEF SalesTypeOK, ReadItem
  <1>2. restock \in [Products -> Int] /\ \A q \in Products : restock[q] \in {void[v].restock[q], n}
    BY <1>0, <1>1 DEF Void
  <1>3. void' = [void EXCEPT ![v] = tracked] \/ void' = [void EXCEPT ![v] = untracked]
    BY DEF ReadItem
  <1> HIDE DEF restock
  <1>4. /\ tracked \in Void /\ tracked.pc = "writing" /\ tracked.current = p
        /\ tracked.sale = void[v].sale /\ tracked.restock = restock
    BY <1>1, <1>2 DEF Void
  <1>5. /\ untracked \in Void /\ untracked.pc = "restocking"
        /\ untracked.sale = void[v].sale /\ untracked.restock = void[v].restock
    BY <1>1 DEF Void
  <1> HIDE DEF n, tracked, untracked
  <1>6. CASE void' = [void EXCEPT ![v] = tracked]
    BY <1>2, <1>4, <1>6 DEF SalesTypeOK, n
  <1>7. CASE void' = [void EXCEPT ![v] = untracked]
    BY <1>5, <1>7 DEF SalesTypeOK
  <1> QED BY <1>3, <1>6, <1>7

\* The initial states are well formed.
LEMMA SalesInitTypeOK == InventoryInit /\ SalesInit => SalesTypeInv
  <1> SUFFICES ASSUME InventoryInit, SalesInit PROVE SalesTypeInv
    OBVIOUS
  <1>1. InventoryTypeOK
    BY InventoryInitType
  <1>2. Empty \in Quantities
    BY SalesAssumption DEF Empty, Quantities
  <1>3. sale \in [Cashiers -> SaleRow]
    BY <1>2 DEF SalesInit, SaleRow, SaleStatus
  <1>4. checkout \in [Cashiers -> Checkout]
    BY <1>2 DEF SalesInit, Checkout
  <1>5. void \in [Voiders -> Void]
    BY DEF SalesInit, Void
  <1>6. saleSeq \in Nat /\ VoidsNameSales
    BY DEF SalesInit, VoidsNameSales
  <1> QED BY <1>1, <1>3, <1>4, <1>5, <1>6 DEF SalesTypeInv, SalesTypeOK

\* A void that moves on names the sale it named.
LEMMA MovedVoidType ==
    ASSUME SalesTypeOK, VoidsNameSales, NEW v \in Voiders,
           NEW pc \in {"restocking", "done", "refused"}, void' = [void EXCEPT ![v].pc = pc],
           pc = "restocking" => void[v].sale \in Cashiers
    PROVE  void' \in [Voiders -> Void] /\ VoidsNameSales'
  <1>1. /\ void' \in [Voiders -> Void] /\ void'[v].pc = pc
        /\ \A w \in Voiders : /\ void'[w].sale = void[w].sale /\ void'[w].current = void[w].current
                              /\ w # v => void'[w].pc = void[w].pc
    BY VoidMoves
  <1>2. ASSUME NEW w \in Voiders
        PROVE  /\ void'[w].pc \in {"restocking", "writing", "marking"} => void'[w].sale \in Cashiers
               /\ void'[w].pc = "writing" => void'[w].current \in Products
    <2>1. CASE w = v
      BY <1>1, <2>1
    <2>2. CASE w # v
      BY <1>1, <2>2 DEF VoidsNameSales
    <2> QED BY <2>1, <2>2
  <1> QED BY <1>1, <1>2 DEF VoidsNameSales

\* Every step of the service keeps its state well formed.
LEMMA SalesStepTypeOK == SalesTypeInv /\ [SalesNext]_SalesVars => SalesTypeInv'
  <1> SUFFICES ASSUME SalesTypeInv, [SalesNext]_SalesVars PROVE SalesTypeInv'
    OBVIOUS
  <1> USE DEF SalesTypeInv
  <1>1. ASSUME NEW c \in Cashiers, OpenCheckout(c) PROVE SalesTypeInv'
    <2>1. PICK basket \in Quantities :
            checkout' = [checkout EXCEPT ![c].pc = "pricing", ![c].basket = basket]
      BY <1>1 DEF OpenCheckout
    <2>2. checkout' \in [Cashiers -> Checkout]
      BY <2>1 DEF SalesTypeOK, Checkout
    <2> QED BY <1>1, <2>2 DEF OpenCheckout, SalesTypeOK, InventoryTypeOK, inventoryVars, VoidsNameSales
  <1>2. ASSUME NEW c \in Cashiers, NEW p \in Products, PriceLine(c, p) PROVE SalesTypeInv'
    <2>1. PICK how \in {"tracked", "untracked"} : checkout' = [checkout EXCEPT ![c].read[p] = how]
      BY <1>2 DEF PriceLine
    <2>2. PICK call \in Checkout : call = checkout[c]
      BY DEF SalesTypeOK
    <2>3. [call EXCEPT !.read[p] = how] \in Checkout
      BY ONLY <2>1, <2>2 DEF Checkout
    <2>4. checkout' \in [Cashiers -> Checkout]
      BY <2>1, <2>2, <2>3 DEF SalesTypeOK
    <2> QED BY <1>2, <2>4 DEF PriceLine, SalesTypeOK, InventoryTypeOK, inventoryVars, VoidsNameSales
  <1>3. ASSUME NEW c \in Cashiers,
               (\E p \in Products : RefuseLine(c, p)) \/ RefuseCommit(c) \/ FailCheckout(c)
        PROVE  SalesTypeInv'
    <2>1. /\ checkout' = [checkout EXCEPT ![c].pc = "refused"]
          /\ UNCHANGED <<inventoryVars, sale, saleSeq, void>>
      BY <1>3 DEF RefuseLine, RefuseCommit, FailCheckout
    <2>2. checkout' \in [Cashiers -> Checkout]
      BY <2>1 DEF SalesTypeOK, Checkout
    <2> QED BY <2>1, <2>2 DEF SalesTypeOK, InventoryTypeOK, inventoryVars, VoidsNameSales
  <1>4. ASSUME NEW c \in Cashiers, CommitSale(c) PROVE SalesTypeInv'
    <2>1. checkout' \in [Cashiers -> Checkout]
      BY <1>4 DEF CommitSale, SalesTypeOK, Checkout
    <2>2. checkout[c].basket \in Quantities
      BY DEF SalesTypeOK, Checkout
    <2>3. sale' \in [Cashiers -> SaleRow] /\ saleSeq' \in Nat
      <3> DEFINE row == [status |-> "COMPLETED", number |-> saleSeq + 1,
                         items |-> checkout[c].basket]
      <3>1. saleSeq + 1 \in Nat
        BY DEF SalesTypeOK
      <3>2. row \in SaleRow
        BY <2>2, <3>1 DEF SaleRow, SaleStatus
      <3>3. sale' = [sale EXCEPT ![c] = row] /\ saleSeq' = saleSeq + 1
        BY <1>4 DEF CommitSale
      <3> HIDE DEF row
      <3> QED BY <3>1, <3>2, <3>3 DEF SalesTypeOK
    <2>4. product' \in [Products -> ProductRow]
      <3>1. \A p \in Products : checkout[c].basket[p] \in Int
        BY <2>2 DEF Quantities
      <3>2. product' = [p \in Products |-> IF p \in MovedBy(c)
               THEN [product[p] EXCEPT !.stock = product[p].stock - checkout[c].basket[p]]
               ELSE product[p]]
        BY <1>4 DEF CommitSale, SetStock
      <3>3. \A p \in Products : product[p] \in ProductRow /\ product[p].stock \in Int
        BY DEF SalesTypeOK, InventoryTypeOK, ProductRow
      <3>4. \A p \in Products :
               [product[p] EXCEPT !.stock = product[p].stock - checkout[c].basket[p]] \in ProductRow
        <4> SUFFICES ASSUME NEW p \in Products
                     PROVE  [product[p] EXCEPT !.stock = product[p].stock - checkout[c].basket[p]]
                               \in ProductRow
          OBVIOUS
        <4>1. PICK row \in ProductRow : row = product[p]
          BY <3>3
        <4>2. PICK n \in Int : n = product[p].stock - checkout[c].basket[p]
          BY <3>1, <3>3
        <4> QED BY ONLY <4>1, <4>2, StockSetType
      <3>5. \A p \in Products : product'[p] \in ProductRow
        BY ONLY <3>2, <3>3, <3>4
      <3> QED BY ONLY <3>2, <3>5
    <2>5. kardex' \in [Products -> Seq(Movement)]
      <3>1. kardex' = [p \in Products |-> IF p \in MovedBy(c)
               THEN Append(kardex[p], SaleMovement(c, p)) ELSE kardex[p]]
        BY <1>4 DEF CommitSale, Record
      <3>2. \A p \in Products : kardex[p] \in Seq(Movement) /\ SaleMovement(c, p) \in Movement
        BY SaleMovementType DEF SalesTypeOK, InventoryTypeOK
      <3> QED BY <3>1, <3>2, AppendMovement
    <2> QED BY <1>4, <2>1, <2>3, <2>4, <2>5
            DEF CommitSale, SalesTypeOK, InventoryTypeOK, VoidsNameSales
  <1>5. ASSUME NEW v \in Voiders, NEW s \in Cashiers, OpenVoid(v, s) PROVE SalesTypeInv'
    <2>1. PICK row \in Void : /\ void' = [void EXCEPT ![v] = row] /\ row.sale = s
                             /\ row.pc \in {"restocking", "marking"}
      BY <1>5, OpenVoidRow
    <2>2. void' \in [Voiders -> Void] /\ VoidsNameSales'
      BY <2>1 DEF SalesTypeOK, VoidsNameSales
    <2> QED BY <1>5, <2>2 DEF OpenVoid, SalesTypeOK, InventoryTypeOK, inventoryVars
  <1>6. ASSUME NEW v \in Voiders, NEW s \in Cashiers, RefuseVoid(v, s) PROVE SalesTypeInv'
    <2>1. void' \in [Voiders -> Void] /\ VoidsNameSales'
      BY <1>6, MovedVoidType DEF RefuseVoid
    <2> QED BY <1>6, <2>1 DEF RefuseVoid, SalesTypeOK, InventoryTypeOK, inventoryVars
  <1>7. ASSUME NEW v \in Voiders, NEW p \in Products, ReadItem(v, p) PROVE SalesTypeInv'
    <2>1. void[v].sale \in Cashiers
      BY <1>7 DEF ReadItem, VoidsNameSales
    <2>2. /\ void' \in [Voiders -> Void]
          /\ void'[v].pc = "writing" => void'[v].current = p
          /\ void'[v].sale = void[v].sale
          /\ \A w \in Voiders \ {v} : void'[w] = void[w]
      BY <1>7, ReadItemKeeps
    <2>3. VoidsNameSales'
      BY <2>1, <2>2 DEF VoidsNameSales
    <2> QED BY <1>7, <2>2, <2>3 DEF ReadItem, SalesTypeOK, InventoryTypeOK, inventoryVars
  <1>8. ASSUME NEW v \in Voiders, WriteItem(v) PROVE SalesTypeInv'
    <2>1. void[v].sale \in Cashiers /\ void' = [void EXCEPT ![v].pc = "restocking"]
      BY <1>8 DEF WriteItem, VoidsNameSales
    <2>3. void' \in [Voiders -> Void] /\ VoidsNameSales'
      BY <2>1, MovedVoidType
    <2>2. lock' \in [Products -> Requests \cup {None}]
      BY <1>8, SalesAssumption DEF WriteItem, SalesTypeOK, InventoryTypeOK
    <2> QED BY <1>8, <2>2, <2>3 DEF WriteItem, SalesTypeOK, InventoryTypeOK
  <1>9. ASSUME NEW v \in Voiders, CommitVoid(v) PROVE SalesTypeInv'
    <2>1. void' \in [Voiders -> Void] /\ VoidsNameSales'
      BY <1>9, MovedVoidType DEF CommitVoid
    <2>2. void[v].sale \in Cashiers /\ \A p \in Products : Restocked(v, p) \in Int
      BY <1>9 DEF CommitVoid, VoidsNameSales, SalesTypeOK, Void, Restocked
    <2>3. product' \in [Products -> ProductRow]
      <3>1. product' = [p \in Products |-> IF p \in LockedBy(v)
               THEN [product[p] EXCEPT !.stock = Restocked(v, p)] ELSE product[p]]
        BY <1>9 DEF CommitVoid, SetStock
      <3>2. \A p \in Products : product[p] \in ProductRow
        BY DEF SalesTypeOK, InventoryTypeOK
      <3> QED BY <2>2, <3>1, <3>2, StockSetType
    <2>4. kardex' \in [Products -> Seq(Movement)]
      <3>1. kardex' = [p \in Products |-> IF p \in LockedBy(v)
               THEN Append(kardex[p], ReturnMovement(v, p)) ELSE kardex[p]]
        BY <1>9 DEF CommitVoid, Record
      <3>2. \A p \in Products : kardex[p] \in Seq(Movement) /\ ReturnMovement(v, p) \in Movement
        BY <2>2, ReturnMovementType DEF SalesTypeOK, InventoryTypeOK
      <3> QED BY <3>1, <3>2, AppendMovement
    <2>5. sale' \in [Cashiers -> SaleRow]
      BY <1>9, <2>2 DEF CommitVoid, SalesTypeOK, SaleRow, SaleStatus
    <2> QED BY <1>9, <2>1, <2>3, <2>4, <2>5, ReleasedType
            DEF CommitVoid, SalesTypeOK, InventoryTypeOK
  <1>10. ASSUME NEW v \in Voiders, MarkPartial(v) PROVE SalesTypeInv'
    <2>1. void' \in [Voiders -> Void] /\ VoidsNameSales'
      BY <1>10, MovedVoidType DEF MarkPartial
    <2>2. sale' \in [Cashiers -> SaleRow]
      BY <1>10 DEF MarkPartial, SalesTypeOK, SaleRow, SaleStatus
    <2> QED BY <1>10, <2>1, <2>2 DEF MarkPartial, SalesTypeOK, InventoryTypeOK, inventoryVars
  <1>11. ASSUME NEW v \in Voiders, AbortVoid(v) PROVE SalesTypeInv'
    <2>1. void' \in [Voiders -> Void] /\ VoidsNameSales'
      BY <1>11, MovedVoidType DEF AbortVoid
    <2> QED BY <1>11, <2>1, ReleasedType DEF AbortVoid, SalesTypeOK, InventoryTypeOK
  <1>12. CASE UNCHANGED SalesVars
    BY <1>12 DEF SalesVars, salesVars, inventoryVars, SalesTypeOK, InventoryTypeOK, VoidsNameSales
  <1> QED
    BY <1>1, <1>2, <1>3, <1>4, <1>5, <1>6, <1>7, <1>8, <1>9, <1>10, <1>11, <1>12
    DEF SalesNext, CheckoutStep, VoidStep

\* Type correctness: no interleaving of checkouts and voids leaves a row, a
\* counter or a request's local state outside its type.
THEOREM SalesTypeCorrect == SalesSpec => []SalesTypeOK
  <1>1. SalesSpec => []SalesTypeInv
    BY SalesInitTypeOK, SalesStepTypeOK, PTL DEF SalesSpec, SalesAloneInit
  <1>2. SalesTypeInv => SalesTypeOK
    BY DEF SalesTypeInv
  <1> QED BY <1>1, <1>2, PTL

-----------------------------------------------------------------------------
(* Stock *)

\* The absolute stock a void is about to store is never negative.
RestockNonNegative == \A v \in Voiders, p \in Products : void[v].restock[p] >= 0

StockInv == NeverOversold /\ RestockNonNegative

\* The opening stock is not negative and no void has computed anything.
LEMMA SalesInitStock == InventoryInit /\ SalesInit => StockInv
  <1> SUFFICES ASSUME InventoryInit, SalesInit PROVE StockInv
    OBVIOUS
  <1>1. NeverOversold
    BY InventoryInitType DEF NeverOversold
  <1>2. RestockNonNegative
    BY DEF SalesInit, RestockNonNegative
  <1> QED BY <1>1, <1>2 DEF StockInv

\* Neither the conditional decrement of a sale nor the absolute write of a void
\* takes a stock below zero.
LEMMA SalesStepStock ==
    SalesTypeInv /\ StockInv /\ [SalesNext]_SalesVars => StockInv'
  <1> SUFFICES ASSUME SalesTypeInv, StockInv, [SalesNext]_SalesVars PROVE StockInv'
    OBVIOUS
  <1>1. ASSUME UNCHANGED product, UNCHANGED void PROVE StockInv'
    BY <1>1 DEF StockInv, NeverOversold, RestockNonNegative
  <1>2. ASSUME UNCHANGED product, NEW v \in Voiders, NEW row,
               void' = [void EXCEPT ![v] = row], row.restock = void[v].restock
        PROVE  StockInv'
    BY <1>2 DEF StockInv, NeverOversold, RestockNonNegative, SalesTypeInv, SalesTypeOK
  <1>3. ASSUME NEW c \in Cashiers, CommitSale(c) PROVE StockInv'
    <2>1. \A p \in Products : product[p].stock \in Int /\ checkout[c].basket[p] \in Int
      BY DEF SalesTypeInv, SalesTypeOK, InventoryTypeOK, ProductRow, Checkout, Quantities
    <2>2. \A p \in MovedBy(c) : product[p].stock >= checkout[c].basket[p]
      BY <1>3 DEF CommitSale, CanDecrement
    <2>3. \A p \in Products : product'[p].stock =
             IF p \in MovedBy(c) THEN product[p].stock - checkout[c].basket[p] ELSE product[p].stock
      BY <1>3 DEF CommitSale, SetStock, SalesTypeInv, SalesTypeOK, InventoryTypeOK, ProductRow
    <2>4. NeverOversold'
      BY <2>1, <2>2, <2>3 DEF StockInv, NeverOversold
    <2> QED BY <1>3, <2>4 DEF CommitSale, StockInv, RestockNonNegative
  <1>4. ASSUME NEW v \in Voiders, NEW p \in Products, ReadItem(v, p) PROVE StockInv'
    <2> DEFINE n == product[p].stock + sale[void[v].sale].items[p]
    <2>1. sale[void[v].sale].items[p] \in Nat
      <3>1. void[v].sale \in Cashiers
        BY <1>4 DEF ReadItem, SalesTypeInv, VoidsNameSales
      <3> QED BY <3>1 DEF SalesTypeInv, SalesTypeOK, SaleRow, Quantities
    <2>2. product[p].stock \in Int /\ product[p].stock >= 0
      BY DEF SalesTypeInv, SalesTypeOK, InventoryTypeOK, ProductRow, StockInv, NeverOversold
    <2>3. n \in Int /\ n >= 0
      BY <2>1, <2>2
    <2>4. \A w \in Voiders, q \in Products : void'[w].restock[q] \in {void[w].restock[q], n}
      BY <1>4, ReadItemKeeps
    <2>5. UNCHANGED product
      BY <1>4 DEF ReadItem, inventoryVars
    <2> HIDE DEF n
    <2> QED BY <2>3, <2>4, <2>5 DEF StockInv, NeverOversold, RestockNonNegative
  <1>5. ASSUME NEW v \in Voiders, CommitVoid(v) PROVE StockInv'
    <2>1. \A p \in Products : product'[p].stock =
             IF p \in LockedBy(v) THEN void[v].restock[p] ELSE product[p].stock
      BY <1>5 DEF CommitVoid, SetStock, Restocked, SalesTypeInv, SalesTypeOK, InventoryTypeOK, ProductRow
    <2>2. \A w \in Voiders, p \in Products : void'[w].restock[p] = void[w].restock[p]
      BY <1>5, VoidMoves DEF CommitVoid, SalesTypeInv
    <2> QED BY <2>1, <2>2 DEF StockInv, NeverOversold, RestockNonNegative
  <1>6. ASSUME NEW v \in Voiders,
               \/ \E s \in Cashiers : OpenVoid(v, s) \/ RefuseVoid(v, s)
               \/ WriteItem(v) \/ MarkPartial(v) \/ AbortVoid(v)
        PROVE  StockInv'
    <2>1. UNCHANGED product
      BY <1>6 DEF OpenVoid, RefuseVoid, WriteItem, MarkPartial, AbortVoid, inventoryVars
    <2>2. CASE \E s \in Cashiers : OpenVoid(v, s)
      <3>1. PICK row \in Void : /\ void' = [void EXCEPT ![v] = row]
                               /\ row.restock = void[v].restock
        BY <2>2, OpenVoidRow DEF SalesTypeInv
      <3> QED BY <1>2, <2>1, <3>1
    <2>3. CASE (\E s \in Cashiers : RefuseVoid(v, s)) \/ WriteItem(v) \/ MarkPartial(v)
                 \/ AbortVoid(v)
      <3>1. PICK pc \in {"refused", "restocking", "done"} : void' = [void EXCEPT ![v].pc = pc]
        BY <2>3 DEF RefuseVoid, WriteItem, MarkPartial, AbortVoid
      <3>2. \A w \in Voiders : void'[w].restock = void[w].restock
        BY <3>1, VoidMoves DEF SalesTypeInv
      <3> QED BY <2>1, <3>2 DEF StockInv, NeverOversold, RestockNonNegative
    <2> QED BY <1>6, <2>2, <2>3
  <1>7. ASSUME NEW c \in Cashiers,
               \/ OpenCheckout(c) \/ RefuseCommit(c) \/ FailCheckout(c)
               \/ \E p \in Products : PriceLine(c, p) \/ RefuseLine(c, p)
        PROVE  StockInv'
    BY <1>1, <1>7 DEF OpenCheckout, RefuseCommit, FailCheckout, PriceLine, RefuseLine, inventoryVars
  <1>8. CASE UNCHANGED SalesVars
    BY <1>1, <1>8 DEF SalesVars, salesVars, inventoryVars
  <1> QED
    BY <1>3, <1>4, <1>5, <1>6, <1>7, <1>8 DEF SalesNext, CheckoutStep, VoidStep

\* The tracked stock of a product never goes below zero, whatever checkouts and
\* voids compete for it.
THEOREM SalesNeverOversold == SalesSpec => []NeverOversold
  <1>1. SalesSpec => [](SalesTypeInv /\ StockInv)
    BY SalesInitTypeOK, SalesStepTypeOK, SalesInitStock, SalesStepStock, PTL DEF SalesSpec, SalesAloneInit
  <1>2. SalesTypeInv /\ StockInv => NeverOversold
    BY DEF StockInv
  <1> QED BY <1>1, <1>2, PTL

-----------------------------------------------------------------------------
(* Sale numbers *)

\* A sale exists only once its checkout is done, so that no checkout numbers a
\* sale twice, and a void is only of a sale that exists.
SalesAreMadeOnce ==
    /\ \A c \in Cashiers : sale[c].status # "none" => checkout[c].pc = "done"
    /\ \A v \in Voiders : void[v].pc \in {"restocking", "writing", "marking"} =>
          sale[void[v].sale].status # "none"

NumbersInv == SaleNumbersConsecutive /\ SalesAreMadeOnce

\* No sale, no number.
LEMMA SalesInitNumbers == InventoryInit /\ SalesInit => NumbersInv
  BY DEF SalesInit, NumbersInv, SaleNumbersConsecutive, SalesAreMadeOnce, Sold

\* A commit takes the next number for a sale that did not exist; nothing else
\* touches the counter, and no status goes back to none.
LEMMA SalesStepNumbers ==
    SalesTypeInv /\ NumbersInv /\ [SalesNext]_SalesVars => NumbersInv'
  <1> SUFFICES ASSUME SalesTypeInv, NumbersInv, [SalesNext]_SalesVars PROVE NumbersInv'
    OBVIOUS
  <1> USE DEF SalesTypeInv
  <1>1. ASSUME UNCHANGED <<sale, saleSeq>> PROVE SaleNumbersConsecutive'
    BY <1>1 DEF NumbersInv, SaleNumbersConsecutive, Sold
  <1>2. ASSUME UNCHANGED <<sale, saleSeq, void>>, NEW c \in Cashiers, NEW row,
               checkout[c].pc # "done", checkout' = [checkout EXCEPT ![c] = row]
        PROVE  NumbersInv'
    <2>1. SaleNumbersConsecutive'
      BY <1>1, <1>2
    <2>2. SalesAreMadeOnce'
      BY <1>2 DEF NumbersInv, SalesAreMadeOnce, SalesTypeOK
    <2> QED BY <2>1, <2>2 DEF NumbersInv
  <1>3. ASSUME NEW c \in Cashiers,
               \/ OpenCheckout(c) \/ RefuseCommit(c) \/ FailCheckout(c)
               \/ \E p \in Products : PriceLine(c, p) \/ RefuseLine(c, p)
        PROVE  NumbersInv'
    <2>1. PICK row : checkout' = [checkout EXCEPT ![c] = row]
      BY <1>3 DEF OpenCheckout, RefuseCommit, FailCheckout, PriceLine, RefuseLine
    <2>2. checkout[c].pc # "done" /\ UNCHANGED <<sale, saleSeq, void>>
      BY <1>3 DEF OpenCheckout, RefuseCommit, FailCheckout, PriceLine, RefuseLine, Priced
    <2> QED BY <1>2, <2>1, <2>2
  <1>4. ASSUME NEW c \in Cashiers, CommitSale(c) PROVE NumbersInv'
    <2>1. c \notin Sold
      BY <1>4 DEF CommitSale, Priced, NumbersInv, SalesAreMadeOnce, Sold
    <2>2. /\ \A s \in Cashiers \ {c} : sale'[s] = sale[s]
          /\ sale'[c].number = saleSeq + 1 /\ sale'[c].status = "COMPLETED"
          /\ saleSeq' = saleSeq + 1 /\ saleSeq \in Nat
      BY <1>4 DEF CommitSale, SalesTypeOK
    <2>3. Sold' = Sold \cup {c}
      BY <2>2 DEF Sold
    <2>4. \A s \in Sold : sale'[s].number = sale[s].number /\ sale[s].number \in 1..saleSeq
      BY <2>1, <2>2 DEF NumbersInv, SaleNumbersConsecutive, Sold
    <2>5. {sale'[s].number : s \in Sold'} = 1..saleSeq'
      <3>1. {sale'[s].number : s \in Sold'} = {sale[s].number : s \in Sold} \cup {saleSeq + 1}
        BY <2>2, <2>3, <2>4
      <3>2. {sale[s].number : s \in Sold} = 1..saleSeq
        BY DEF NumbersInv, SaleNumbersConsecutive
      <3>3. 1..(saleSeq + 1) = (1..saleSeq) \cup {saleSeq + 1}
        BY <2>2
      <3> QED BY <2>2, <3>1, <3>2, <3>3
    <2>6. \A s, t \in Sold' : sale'[s].number = sale'[t].number => s = t
      <3>1. \A s \in Sold : sale'[s].number # saleSeq + 1
        BY <2>2, <2>4
      <3>2. \A s, t \in Sold : sale[s].number = sale[t].number => s = t
        BY DEF NumbersInv, SaleNumbersConsecutive
      <3> QED BY <2>2, <2>3, <2>4, <3>1, <3>2
    <2>7. SalesAreMadeOnce'
      <3>1. checkout'[c].pc = "done" /\ \A d \in Cashiers \ {c} : checkout'[d] = checkout[d]
        BY <1>4 DEF CommitSale, SalesTypeOK, Checkout
      <3>2. \A s \in Cashiers : sale[s].status # "none" => sale'[s].status # "none"
        BY <2>2
      <3>3. UNCHANGED void
        BY <1>4 DEF CommitSale
      <3>4. \A v \in Voiders : void[v].pc \in {"restocking", "writing", "marking"} =>
              void[v].sale \in Cashiers
        BY DEF VoidsNameSales
      <3> QED BY <2>2, <3>1, <3>2, <3>3, <3>4 DEF NumbersInv, SalesAreMadeOnce
    <2> QED BY <2>5, <2>6, <2>7 DEF NumbersInv, SaleNumbersConsecutive
  <1>5. ASSUME NEW v \in Voiders, NEW s \in Cashiers, OpenVoid(v, s) PROVE NumbersInv'
    <2>1. SaleNumbersConsecutive'
      BY <1>1, <1>5 DEF OpenVoid
    <2>2. sale[s].status # "none"
      BY <1>5 DEF OpenVoid, Voidable
    <2>3. PICK row \in Void : void' = [void EXCEPT ![v] = row] /\ row.sale = s
      BY <1>5, OpenVoidRow
    <2>4. SalesAreMadeOnce'
      BY <1>5, <2>2, <2>3 DEF OpenVoid, NumbersInv, SalesAreMadeOnce, SalesTypeOK
    <2> QED BY <2>1, <2>4 DEF NumbersInv
  <1>6. ASSUME NEW v \in Voiders,
               \/ \E s \in Cashiers : RefuseVoid(v, s)
               \/ AbortVoid(v) \/ WriteItem(v)
               \/ \E p \in Products : ReadItem(v, p)
        PROVE  NumbersInv'
    <2>1. UNCHANGED <<sale, saleSeq, checkout>>
      BY <1>6 DEF RefuseVoid, AbortVoid, WriteItem, ReadItem
    <2>2. \A w \in Voiders : void'[w].pc \in {"restocking", "writing", "marking"} =>
              /\ void[w].pc \in {"restocking", "writing", "marking"}
              /\ void'[w].sale = void[w].sale
      <3>1. CASE \E p \in Products : ReadItem(v, p)
        <4>1. void[v].pc = "restocking"
          BY <3>1 DEF ReadItem
        <4>2. \A w \in Voiders : void'[w].sale = void[w].sale /\ (w # v => void'[w] = void[w])
          BY <3>1, ReadItemKeeps
        <4> QED BY <4>1, <4>2
      <3>2. CASE (\E s \in Cashiers : RefuseVoid(v, s)) \/ AbortVoid(v)
        BY <3>2, VoidMoves DEF RefuseVoid, AbortVoid
      <3>3. CASE WriteItem(v)
        BY <3>3, VoidMoves DEF WriteItem
      <3> QED BY <1>6, <3>1, <3>2, <3>3
    <2>3. SalesAreMadeOnce'
      BY <2>1, <2>2 DEF NumbersInv, SalesAreMadeOnce
    <2> QED BY <1>1, <2>1, <2>3 DEF NumbersInv
  <1>7. ASSUME NEW v \in Voiders, CommitVoid(v) \/ MarkPartial(v) PROVE NumbersInv'
    <2>1. void[v].sale \in Cashiers /\ sale[void[v].sale].status # "none"
      BY <1>7 DEF CommitVoid, MarkPartial, VoidsNameSales, NumbersInv, SalesAreMadeOnce
    <2>2. /\ \A s \in Cashiers : sale'[s].number = sale[s].number
          /\ \A s \in Cashiers : sale'[s].status # "none" <=> sale[s].status # "none"
      <3>1. PICK id \in Cashiers : id = void[v].sale
        BY <2>1
      <3>2. PICK status \in {"CANCELLED", "RETURNED_PARTIAL"} :
               sale' = [sale EXCEPT ![id].status = status]
        BY <1>7, <3>1 DEF CommitVoid, MarkPartial
      <3>3. sale \in [Cashiers -> SaleRow]
        BY DEF SalesTypeOK
      <3>4. /\ [sale[id] EXCEPT !.status = status].number = sale[id].number
            /\ [sale[id] EXCEPT !.status = status].status = status
        BY <3>3 DEF SaleRow
      <3> QED BY <2>1, <3>1, <3>2, <3>3, <3>4
    <2>3. UNCHANGED <<saleSeq, checkout>>
      BY <1>7 DEF CommitVoid, MarkPartial
    <2>4. Sold' = Sold
      BY <2>2 DEF Sold
    <2>5. SaleNumbersConsecutive'
      <3>1. \A s \in Sold : sale'[s].number = sale[s].number
        BY <2>2 DEF Sold
      <3> QED BY <2>3, <2>4, <3>1 DEF NumbersInv, SaleNumbersConsecutive
    <2>6. /\ \A w \in Voiders : void'[w].sale = void[w].sale
          /\ \A w \in Voiders : void'[w].pc \in {"restocking", "writing", "marking"} =>
                void[w].pc \in {"restocking", "writing", "marking"}
      <3>1. void' = [void EXCEPT ![v].pc = "done"]
        BY <1>7 DEF CommitVoid, MarkPartial
      <3> QED BY <3>1, VoidMoves
    <2>7. SalesAreMadeOnce'
      <3>1. \A w \in Voiders : void[w].pc \in {"restocking", "writing", "marking"} =>
              void[w].sale \in Cashiers
        BY DEF VoidsNameSales
      <3> QED BY <2>2, <2>3, <2>6, <3>1 DEF NumbersInv, SalesAreMadeOnce
    <2> QED BY <2>5, <2>7 DEF NumbersInv
  <1>8. CASE UNCHANGED SalesVars
    <2>1. UNCHANGED <<sale, saleSeq, checkout, void>>
      BY <1>8 DEF SalesVars, salesVars
    <2> QED BY <1>1, <2>1 DEF NumbersInv, SalesAreMadeOnce
  <1> QED
    BY <1>3, <1>4, <1>5, <1>6, <1>7, <1>8 DEF SalesNext, CheckoutStep, VoidStep

\* The numbers of the committed sales are exactly 1..currentNumber, each used
\* once, whatever fails between taking a number and committing it.
THEOREM SalesNumbered == SalesSpec => []SaleNumbersConsecutive
  <1>1. SalesSpec => [](SalesTypeInv /\ NumbersInv)
    BY SalesInitTypeOK, SalesStepTypeOK, SalesInitNumbers, SalesStepNumbers, PTL
       DEF SalesSpec, SalesAloneInit
  <1>2. SalesTypeInv /\ NumbersInv => SaleNumbersConsecutive
    BY DEF NumbersInv
  <1> QED BY <1>1, <1>2, PTL

-----------------------------------------------------------------------------
(* Units leave once *)

\* One more kardex row of another document, or of another type, changes nothing
\* of what a document's movements of a type were.
LEMMA MovementsKept ==
    ASSUME InventoryTypeOK, NEW p \in Products, NEW type, NEW s, NEW m,
           \/ kardex'[p] = kardex[p]
           \/ kardex'[p] = Append(kardex[p], m) /\ (m.type # type \/ m.source # s)
    PROVE  /\ MovementsOf(p, type, s)' = MovementsOf(p, type, s)
           /\ \A i \in MovementsOf(p, type, s) : kardex'[p][i] = kardex[p][i]
  <1> DEFINE n == Len(kardex[p])
  <1>1. kardex[p] \in Seq(Movement) /\ n \in Nat /\ DOMAIN kardex[p] = 1..n
    BY DEF InventoryTypeOK
  <1>2. CASE kardex'[p] = kardex[p]
    BY <1>2 DEF MovementsOf
  <1>3. CASE kardex'[p] = Append(kardex[p], m) /\ (m.type # type \/ m.source # s)
    <2>1. /\ DOMAIN kardex'[p] = 1..(n + 1) /\ kardex'[p][n + 1] = m
          /\ \A i \in 1..n : kardex'[p][i] = kardex[p][i]
      BY <1>1, <1>3
    <2>2. \A i \in 1..(n + 1) : i \in 1..n \/ i = n + 1
      BY <1>1
    <2>3. \A i : i \in MovementsOf(p, type, s)' <=>
                   /\ i \in 1..(n + 1) /\ kardex'[p][i].type = type /\ kardex'[p][i].source = s
      BY <2>1 DEF MovementsOf
    <2>4. \A i : i \in MovementsOf(p, type, s) <=>
                   /\ i \in 1..n /\ kardex[p][i].type = type /\ kardex[p][i].source = s
      BY <1>1 DEF MovementsOf
    <2>5. \A i \in 1..n : i \in 1..(n + 1)
      BY <1>1
    <2> HIDE DEF n
    <2>6. \A i : i \in MovementsOf(p, type, s)' <=> i \in MovementsOf(p, type, s)
      BY <1>3, <2>1, <2>2, <2>3, <2>4, <2>5
    <2> QED BY <2>1, <2>4, <2>6
  <1> QED BY <1>2, <1>3

\* The first row of a document is its only one.
LEMMA MovementsAdded ==
    ASSUME InventoryTypeOK, NEW p \in Products, NEW s \in Cashiers, NEW m,
           kardex'[p] = Append(kardex[p], m), m.type = "SALE", m.source = s,
           MovementsOf(p, "SALE", s) = {}
    PROVE  /\ MovementsOf(p, "SALE", s)' = {Len(kardex[p]) + 1}
           /\ kardex'[p][Len(kardex[p]) + 1] = m
  <1> DEFINE n == Len(kardex[p])
  <1>1. kardex[p] \in Seq(Movement) /\ n \in Nat /\ DOMAIN kardex[p] = 1..n
    BY DEF InventoryTypeOK
  <1>2. /\ DOMAIN kardex'[p] = 1..(n + 1) /\ kardex'[p][n + 1] = m
        /\ \A i \in 1..n : kardex'[p][i] = kardex[p][i]
    BY <1>1
  <1>3. \A i \in 1..n : ~(kardex[p][i].type = "SALE" /\ kardex[p][i].source = s)
    BY <1>1 DEF MovementsOf
  <1>4. \A i : i \in MovementsOf(p, "SALE", s)' <=> i = n + 1
    <2>1. \A i : i \in 1..(n + 1) <=> i \in 1..n \/ i = n + 1
      BY <1>1
    <2>2. \A i : i \in MovementsOf(p, "SALE", s)' <=>
                   /\ i \in 1..(n + 1) /\ kardex'[p][i].type = "SALE" /\ kardex'[p][i].source = s
      BY <1>2 DEF MovementsOf
    <2> HIDE DEF n
    <2> QED BY <1>2, <1>3, <2>1, <2>2
  <1> HIDE DEF n
  <1> QED BY <1>2, <1>4 DEF n

\* A sale with its movements: what SoldUnitsLeaveOnce says of one line.
LeftOnce(s, p) ==
    IF s \in Sold /\ p \in Stocked(s)
    THEN \E i \in MovementsOf(p, "SALE", s) :
            /\ MovementsOf(p, "SALE", s) = {i}
            /\ kardex[p][i].quantity = -sale[s].items[p]
    ELSE MovementsOf(p, "SALE", s) = {}

LeaveInv == SoldUnitsLeaveOnce /\ SalesAreMadeOnce

\* A step that keeps a line's movements, and the sale if there is one, keeps it right.
LEMMA LineKept ==
    ASSUME InventoryTypeOK, LeaveInv, NEW s \in Cashiers, NEW p \in Products, NEW m,
           \/ kardex'[p] = kardex[p]
           \/ kardex'[p] = Append(kardex[p], m) /\ (m.type # "SALE" \/ m.source # s),
           sale'[s].status # "none" <=> sale[s].status # "none",
           sale'[s].items = sale[s].items,
           s \in Sold => checkout'[s] = checkout[s]
    PROVE  LeftOnce(s, p)'
  <1>1. LeftOnce(s, p)
    BY DEF LeaveInv, SoldUnitsLeaveOnce, LeftOnce
  <1>2. s \in Sold' <=> s \in Sold
    BY DEF Sold
  <1>3. s \in Sold => Stocked(s)' = Stocked(s)
    BY DEF Stocked, Lines
  <1>4. /\ MovementsOf(p, "SALE", s)' = MovementsOf(p, "SALE", s)
        /\ \A i \in MovementsOf(p, "SALE", s) : kardex'[p][i] = kardex[p][i]
    <2>1. \/ kardex'[p] = kardex[p]
          \/ kardex'[p] = Append(kardex[p], m) /\ (m.type # "SALE" \/ m.source # s)
      OBVIOUS
    <2>2. InventoryTypeOK
      OBVIOUS
    <2> QED BY ONLY <2>1, <2>2, MovementsKept
  <1> QED BY <1>1, <1>2, <1>3, <1>4 DEF LeftOnce

\* A sale leaves with the movements of its tracked lines; a void only adds RETURN
\* movements; no other step touches a sale or the kardex.
LEMMA SalesStepLeave ==
    ASSUME SalesTypeInv, SalesTypeInv', LeaveInv, SalesAreMadeOnce', [SalesNext]_SalesVars
    PROVE  SoldUnitsLeaveOnce'
  <1>0. InventoryTypeOK /\ SalesTypeOK
    BY DEF SalesTypeInv, SalesTypeOK
  <1> SUFFICES ASSUME NEW s \in Cashiers, NEW p \in Products
               PROVE  LeftOnce(s, p)'
    BY DEF SoldUnitsLeaveOnce, LeftOnce
  <1>1. ASSUME UNCHANGED <<kardex, sale>>, s \in Sold => checkout'[s] = checkout[s]
        PROVE  LeftOnce(s, p)'
    BY <1>0, <1>1, LineKept
  <1>2. ASSUME NEW c \in Cashiers,
               \/ OpenCheckout(c) \/ RefuseCommit(c) \/ FailCheckout(c)
               \/ \E q \in Products : PriceLine(c, q) \/ RefuseLine(c, q)
        PROVE  LeftOnce(s, p)'
    <2>1. PICK row : checkout' = [checkout EXCEPT ![c] = row]
      BY <1>2 DEF OpenCheckout, RefuseCommit, FailCheckout, PriceLine, RefuseLine
    <2>2. checkout[c].pc # "done" /\ UNCHANGED <<kardex, sale>>
      BY <1>2 DEF OpenCheckout, RefuseCommit, FailCheckout, PriceLine, RefuseLine, Priced,
                  inventoryVars
    <2>3. s \in Sold => s # c
      BY <2>2 DEF LeaveInv, SalesAreMadeOnce, Sold
    <2> QED BY <1>0, <1>1, <2>1, <2>2, <2>3 DEF SalesTypeOK
  <1>3. ASSUME NEW c \in Cashiers, CommitSale(c)
        PROVE  LeftOnce(s, p)'
    <2> DEFINE m == SaleMovement(c, p)
               row == [status |-> "COMPLETED", number |-> saleSeq + 1,
                       items |-> checkout[c].basket]
    <2>1. kardex'[p] = IF p \in Stocked(c) THEN Append(kardex[p], m) ELSE kardex[p]
      BY <1>3 DEF CommitSale, Record, MovedBy
    <2>2. /\ m.type = "SALE" /\ m.source = c
          /\ m.quantity = -checkout[c].basket[p]
      <3>1. product[p].stock \in Int /\ checkout[c].basket[p] \in Int
        BY <1>0 DEF SalesTypeOK, InventoryTypeOK, ProductRow, Checkout, Quantities
      <3> QED BY <3>1 DEF SaleMovement, MovementRow
    <2>3. sale' = [sale EXCEPT ![c] = row] /\ checkout' = [checkout EXCEPT ![c].pc = "done"]
      BY <1>3 DEF CommitSale
    <2> HIDE DEF m
    <2>4. CASE s # c
      <3>1. sale'[s] = sale[s] /\ checkout'[s] = checkout[s]
        BY <1>0, <2>3, <2>4 DEF SalesTypeOK
      <3>2. \/ kardex'[p] = kardex[p]
            \/ kardex'[p] = Append(kardex[p], m) /\ (m.type # "SALE" \/ m.source # s)
        BY <2>1, <2>2, <2>4
      <3> QED BY <1>0, <3>1, <3>2, LineKept
    <2>5. CASE s = c
      <3>1. MovementsOf(p, "SALE", c) = {}
        <4>1. c \notin Sold
          BY <1>3 DEF CommitSale, Priced, LeaveInv, SalesAreMadeOnce, Sold
        <4> QED BY <4>1 DEF LeaveInv, SoldUnitsLeaveOnce
      <3>2. c \in Sold' /\ sale'[c].items = checkout[c].basket
        BY <1>0, <2>3 DEF Sold, SalesTypeOK
      <3>3. Stocked(c)' = Stocked(c)
        BY <1>0, <2>3 DEF SalesTypeOK, Checkout, Stocked, Lines
      <3>4. CASE p \in Stocked(c)
        <4>1. kardex'[p] = Append(kardex[p], m)
          BY <2>1, <3>4
        <4>2. /\ MovementsOf(p, "SALE", c)' = {Len(kardex[p]) + 1}
              /\ kardex'[p][Len(kardex[p]) + 1] = m
          BY <1>0, <2>2, <3>1, <4>1, MovementsAdded
        <4> QED BY <2>2, <2>5, <3>2, <3>3, <3>4, <4>2 DEF LeftOnce
      <3>5. CASE p \notin Stocked(c)
        <4>1. MovementsOf(p, "SALE", c)' = {}
          BY <1>0, <2>1, <3>1, <3>5, MovementsKept
        <4> QED BY <2>5, <3>3, <3>5, <4>1 DEF LeftOnce
      <3> QED BY <3>4, <3>5
    <2> QED BY <2>4, <2>5
  <1>4. ASSUME NEW v \in Voiders,
               \/ \E t \in Cashiers : OpenVoid(v, t) \/ RefuseVoid(v, t)
               \/ AbortVoid(v) \/ WriteItem(v)
               \/ \E q \in Products : ReadItem(v, q)
        PROVE  LeftOnce(s, p)'
    <2>1. UNCHANGED <<kardex, sale, checkout>>
      BY <1>4 DEF OpenVoid, RefuseVoid, AbortVoid, WriteItem, ReadItem, inventoryVars
    <2> QED BY <1>1, <2>1
  <1>5. ASSUME NEW v \in Voiders, CommitVoid(v) \/ MarkPartial(v)
        PROVE  LeftOnce(s, p)'
    <2> DEFINE m == ReturnMovement(v, p)
    <2>1. void[v].sale \in Cashiers /\ sale[void[v].sale].status # "none"
      BY <1>5 DEF CommitVoid, MarkPartial, SalesTypeInv, VoidsNameSales, LeaveInv,
                  SalesAreMadeOnce
    <2>2. /\ sale'[s].status # "none" <=> sale[s].status # "none"
          /\ sale'[s].items = sale[s].items
      BY <1>0, <1>5, <2>1 DEF CommitVoid, MarkPartial, SalesTypeOK, SaleRow
    <2>3. kardex'[p] = kardex[p] \/ kardex'[p] = Append(kardex[p], m)
      BY <1>5 DEF CommitVoid, MarkPartial, Record, inventoryVars
    <2>4. m.type = "RETURN"
      BY DEF ReturnMovement, MovementRow
    <2>5. checkout' = checkout
      BY <1>5 DEF CommitVoid, MarkPartial
    <2> HIDE DEF m
    <2> QED BY <1>0, <2>2, <2>3, <2>4, <2>5, LineKept
  <1>6. CASE UNCHANGED SalesVars
    BY <1>1, <1>6 DEF SalesVars, inventoryVars, salesVars
  <1> QED
    BY <1>2, <1>3, <1>4, <1>5, <1>6 DEF SalesNext, CheckoutStep, VoidStep

\* The kardex of the catalogue names no sale.
LEMMA SalesInitMovements ==
    ASSUME InventoryInit, NEW s \in Cashiers, NEW p \in Products
    PROVE  MovementsOf(p, "SALE", s) = {} /\ MovementsOf(p, "RETURN", s) = {}
  <1>1. \/ kardex[p] = <<>>
        \/ kardex[p] = <<MovementRow("PURCHASE", 0, product[p].stock, None)>>
    BY DEF InventoryInit
  <1> QED BY <1>1 DEF MovementsOf, MovementRow

\* A sold line takes its units out of stock exactly once if its product was
\* tracked when it was priced, and not at all otherwise, for any number of
\* competing checkouts and voids.
THEOREM SalesLeaveOnce == SalesSpec => []SoldUnitsLeaveOnce
  <1> DEFINE Inv == SalesTypeInv /\ NumbersInv /\ SoldUnitsLeaveOnce
  <1>1. InventoryInit /\ SalesInit => Inv
    <2> SUFFICES ASSUME InventoryInit, SalesInit PROVE SoldUnitsLeaveOnce
      BY SalesInitTypeOK, SalesInitNumbers
    <2>1. Sold = {}
      BY DEF SalesInit, Sold
    <2> QED BY <2>1, SalesInitMovements DEF SoldUnitsLeaveOnce
  <1>2. Inv /\ [SalesNext]_SalesVars => Inv'
    <2> SUFFICES ASSUME Inv, [SalesNext]_SalesVars PROVE Inv'
      OBVIOUS
    <2>1. SalesTypeInv' /\ NumbersInv'
      BY SalesStepTypeOK, SalesStepNumbers
    <2>2. SoldUnitsLeaveOnce'
      BY <2>1, SalesStepLeave DEF LeaveInv, NumbersInv
    <2> QED BY <2>1, <2>2
  <1>3. Inv => SoldUnitsLeaveOnce
    OBVIOUS
  <1> QED BY <1>1, <1>2, <1>3, PTL DEF SalesSpec, SalesAloneInit
-----------------------------------------------------------------------------
(* Row locks *)

\* What a void that opens starts with.
LEMMA OpenVoidFields ==
    ASSUME SalesTypeOK, NEW v \in Voiders, NEW s \in Cashiers, OpenVoid(v, s)
    PROVE  /\ \A w \in Voiders : w # v => void'[w] = void[w]
           /\ void'[v].sale = s
           /\ void'[v].pc \in {"restocking", "marking"}
           /\ void'[v].pc = "restocking" => void'[v].todo = Lines(sale[s].items)
  <1> DEFINE full == [void[v] EXCEPT !.pc = "restocking", !.sale = s,
                                     !.todo = Lines(sale[s].items)]
             partial == [void[v] EXCEPT !.pc = "marking", !.sale = s]
  <1>1. void[v] \in Void /\ void \in [Voiders -> Void]
    BY DEF SalesTypeOK
  <1>2. full.sale = s /\ full.pc = "restocking" /\ full.todo = Lines(sale[s].items)
    BY <1>1 DEF Void
  <1>3. partial.sale = s /\ partial.pc = "marking"
    BY <1>1 DEF Void
  <1>4. void' = [void EXCEPT ![v] = full] \/ void' = [void EXCEPT ![v] = partial]
    BY DEF OpenVoid
  <1> HIDE DEF full, partial
  <1> QED BY <1>1, <1>2, <1>3, <1>4

\* What a void keeps of one item it reads: the restock of a tracked one, and that
\* the line is dealt with.
LEMMA ReadItemFields ==
    ASSUME SalesTypeInv, NEW v \in Voiders, NEW p \in Products, ReadItem(v, p)
    PROVE  /\ \A w \in Voiders : w # v => void'[w] = void[w]
           /\ void'[v].sale = void[v].sale
           /\ void'[v].todo = void[v].todo \ {p}
           /\ \A q \in Products : q # p => void'[v].restock[q] = void[v].restock[q]
           /\ Exists(p) /\ TracksStock(product[p]) =>
                /\ void'[v].pc = "writing" /\ void'[v].current = p
                /\ void'[v].restock[p] = product[p].stock + sale[void[v].sale].items[p]
           /\ ~(Exists(p) /\ TracksStock(product[p])) => void'[v].pc = "restocking"
  <1> DEFINE n == product[p].stock + sale[void[v].sale].items[p]
             restock == [void[v].restock EXCEPT ![p] = n]
             tracked == [void[v] EXCEPT !.pc = "writing", !.todo = @ \ {p}, !.current = p,
                                        !.restock = restock]
             untracked == [void[v] EXCEPT !.todo = @ \ {p}]
  <1>1. void[v] \in Void /\ void[v].pc = "restocking" /\ void \in [Voiders -> Void]
    BY DEF SalesTypeInv, SalesTypeOK, ReadItem
  <1>2. restock[p] = n /\ \A q \in Products : q # p => restock[q] = void[v].restock[q]
    BY <1>1 DEF Void
  <1>3. /\ Exists(p) /\ TracksStock(product[p]) => void' = [void EXCEPT ![v] = tracked]
        /\ ~(Exists(p) /\ TracksStock(product[p])) => void' = [void EXCEPT ![v] = untracked]
    BY DEF ReadItem
  <1> HIDE DEF restock
  <1>4. /\ tracked.pc = "writing" /\ tracked.current = p /\ tracked.sale = void[v].sale
        /\ tracked.todo = void[v].todo \ {p} /\ tracked.restock = restock
    BY <1>1 DEF Void
  <1>5. /\ untracked.pc = "restocking" /\ untracked.sale = void[v].sale
        /\ untracked.todo = void[v].todo \ {p} /\ untracked.restock = void[v].restock
    BY <1>1 DEF Void
  <1> HIDE DEF tracked, untracked
  <1>6. CASE Exists(p) /\ TracksStock(product[p])
    BY <1>1, <1>2, <1>3, <1>4, <1>6
  <1>7. CASE ~(Exists(p) /\ TracksStock(product[p]))
    BY <1>1, <1>3, <1>5, <1>7
  <1> QED BY <1>6, <1>7

\* The voids whose transaction may hold rows.
VoidsAtWork == {v \in Voiders : void[v].pc \in {"restocking", "writing"}}

LocksAreOfVoids == \A p \in Products : lock[p] # None => lock[p] \in VoidsAtWork

\* A row is locked only by a void that is still at work: a transaction that ends
\* gives its rows back.
LEMMA SalesStepLocks ==
    SalesTypeInv /\ LocksAreOfVoids /\ [SalesNext]_SalesVars => LocksAreOfVoids'
  <1> SUFFICES ASSUME SalesTypeInv, LocksAreOfVoids, [SalesNext]_SalesVars
               PROVE  LocksAreOfVoids'
    OBVIOUS
  <1>0. SalesTypeOK /\ lock \in [Products -> Requests \cup {None}] /\ None \notin Voiders
    BY SalesAssumption, InventoryAssumption DEF SalesTypeInv, SalesTypeOK, InventoryTypeOK
  <1>1. ASSUME UNCHANGED lock, VoidsAtWork \subseteq VoidsAtWork'
        PROVE  LocksAreOfVoids'
    BY <1>1 DEF LocksAreOfVoids
  <1>2. ASSUME NEW c \in Cashiers,
               \/ OpenCheckout(c) \/ CommitSale(c) \/ RefuseCommit(c) \/ FailCheckout(c)
               \/ \E p \in Products : PriceLine(c, p) \/ RefuseLine(c, p)
        PROVE  LocksAreOfVoids'
    <2>1. UNCHANGED <<lock, void>>
      BY <1>2 DEF OpenCheckout, CommitSale, RefuseCommit, FailCheckout, PriceLine, RefuseLine,
                  inventoryVars
    <2> QED BY <1>1, <2>1 DEF VoidsAtWork
  <1>3. ASSUME NEW v \in Voiders, NEW s \in Cashiers, OpenVoid(v, s)
        PROVE  LocksAreOfVoids'
    <2>1. UNCHANGED lock /\ void[v].pc = "idle"
      BY <1>3 DEF OpenVoid, inventoryVars
    <2>2. \A w \in Voiders : w # v => void'[w] = void[w]
      BY <1>0, <1>3, OpenVoidFields
    <2> QED BY <1>1, <2>1, <2>2 DEF VoidsAtWork
  <1>4. ASSUME NEW v \in Voiders, (\E s \in Cashiers : RefuseVoid(v, s)) \/ MarkPartial(v)
        PROVE  LocksAreOfVoids'
    <2>1. UNCHANGED lock /\ void[v].pc \in {"idle", "marking"}
      BY <1>4 DEF RefuseVoid, MarkPartial, inventoryVars
    <2>2. PICK pc \in {"refused", "done"} : void' = [void EXCEPT ![v].pc = pc]
      BY <1>4 DEF RefuseVoid, MarkPartial
    <2>3. \A w \in Voiders : w # v => void'[w].pc = void[w].pc
      BY <1>0, <2>2, VoidMoves
    <2> QED BY <1>1, <2>1, <2>3 DEF VoidsAtWork
  <1>5. ASSUME NEW v \in Voiders, NEW p \in Products, ReadItem(v, p)
        PROVE  LocksAreOfVoids'
    <2>1. UNCHANGED lock
      BY <1>5 DEF ReadItem, inventoryVars
    <2>2. (\A w \in Voiders : w # v => void'[w] = void[w]) /\ void'[v].pc \in {"restocking", "writing"}
      BY <1>5, ReadItemFields
    <2> QED BY <1>1, <2>1, <2>2 DEF VoidsAtWork
  <1>6. ASSUME NEW v \in Voiders, WriteItem(v)
        PROVE  LocksAreOfVoids'
    <2>1. void' = [void EXCEPT ![v].pc = "restocking"] /\ lock' = [lock EXCEPT ![void[v].current] = v]
      BY <1>6 DEF WriteItem
    <2>2. void'[v].pc = "restocking" /\ \A w \in Voiders : w # v => void'[w].pc = void[w].pc
      BY <1>0, <2>1, VoidMoves
    <2>3. VoidsAtWork \subseteq VoidsAtWork' /\ v \in VoidsAtWork'
      BY <2>2 DEF VoidsAtWork
    <2>4. \A p \in Products : lock'[p] \in {lock[p], v}
      BY <1>0, <2>1
    <2> QED BY <2>3, <2>4 DEF LocksAreOfVoids
  <1>7. ASSUME NEW v \in Voiders, CommitVoid(v) \/ AbortVoid(v)
        PROVE  LocksAreOfVoids'
    <2>1. lock' = [p \in Products |-> IF lock[p] = v THEN None ELSE lock[p]]
      BY <1>7 DEF CommitVoid, AbortVoid, Released
    <2>2. PICK pc \in {"refused", "done"} : void' = [void EXCEPT ![v].pc = pc]
      BY <1>7 DEF CommitVoid, AbortVoid
    <2>3. \A w \in Voiders : w # v => void'[w].pc = void[w].pc
      BY <1>0, <2>2, VoidMoves
    <2>4. \A w \in VoidsAtWork : w # v => w \in VoidsAtWork'
      BY <2>3 DEF VoidsAtWork
    <2>5. \A p \in Products : lock'[p] # None => lock'[p] = lock[p] /\ lock[p] # v
      BY <2>1
    <2> QED BY <2>4, <2>5 DEF LocksAreOfVoids
  <1>8. CASE UNCHANGED SalesVars
    BY <1>1, <1>8 DEF SalesVars, salesVars, inventoryVars, VoidsAtWork
  <1> QED
    BY <1>2, <1>3, <1>4, <1>5, <1>6, <1>7, <1>8 DEF SalesNext, CheckoutStep, VoidStep

\* Nothing is locked when the behaviour starts.
LEMMA SalesInitLocks == InventoryInit => LocksAreOfVoids
  BY DEF InventoryInit, LocksAreOfVoids
-----------------------------------------------------------------------------
(* A void returns all of its sale or nothing *)

\* What the checkouts read of a product is still so: nothing here converts one.
KindsAreRead ==
    \A c \in Cashiers, p \in Products :
        /\ checkout[c].read[p] = "tracked" => Exists(p) /\ TracksStock(product[p])
        /\ checkout[c].read[p] = "untracked" => ~TracksStock(product[p])

\* A sale holds the basket of its checkout, every line of it priced.
SalesAreTheirBaskets ==
    \A s \in Sold :
        /\ sale[s].items = checkout[s].basket
        /\ \A p \in Lines(checkout[s].basket) : checkout[s].read[p] # "unread"

\* The lines of its sale a void has locked, is about to lock or has not come to.
Collected(v) ==
    LockedBy(v) \cup (void[v].todo \cap Stocked(void[v].sale))
        \cup {p \in Products : void[v].pc = "writing" /\ p = void[v].current}

CollectsItsSale(v) ==
    /\ Collected(v) = Stocked(void[v].sale)
    /\ void[v].todo \subseteq Lines(sale[void[v].sale].items)

VoidsCollectTheirSales == \A v \in VoidsAtWork : CollectsItsSale(v)

\* What VoidReturnsWholeSale says of one sale.
ReturnsWhole(s) ==
    /\ Returned(s) \in {{}, TakenOut(s)}
    /\ sale[s].status = "CANCELLED" => Returned(s) = TakenOut(s)
    /\ sale[s].status \in {"none", "COMPLETED"} => Returned(s) = {}

WholeInv ==
    /\ LocksAreOfVoids
    /\ KindsAreRead
    /\ SalesAreTheirBaskets
    /\ VoidsCollectTheirSales
    /\ VoidReturnsWholeSale

\* Neither a sale nor a void converts, deletes or revives a product.
LEMMA KindsKept ==
    ASSUME SalesTypeInv, [SalesNext]_SalesVars, NEW p \in Products
    PROVE  /\ Exists(p)' <=> Exists(p)
           /\ TracksStock(product[p])' <=> TracksStock(product[p])
  <1>0. product \in [Products -> ProductRow]
    BY DEF SalesTypeInv, SalesTypeOK, InventoryTypeOK
  <1>1. ASSUME UNCHANGED product
        PROVE  (Exists(p)' <=> Exists(p)) /\ (TracksStock(product[p])' <=> TracksStock(product[p]))
    BY <1>1 DEF Exists, TracksStock
  <1>2. ASSUME NEW n, product'[p] = [product[p] EXCEPT !.stock = n]
        PROVE  (Exists(p)' <=> Exists(p)) /\ (TracksStock(product[p])' <=> TracksStock(product[p]))
    BY <1>0, <1>2 DEF Exists, TracksStock, ProductRow
  <1>3. ASSUME product'[p] = product[p]
        PROVE  (Exists(p)' <=> Exists(p)) /\ (TracksStock(product[p])' <=> TracksStock(product[p]))
    BY <1>3 DEF Exists, TracksStock
  <1>4. ASSUME NEW c \in Cashiers, CommitSale(c)
        PROVE  (Exists(p)' <=> Exists(p)) /\ (TracksStock(product[p])' <=> TracksStock(product[p]))
    <2>1. product'[p] = IF p \in MovedBy(c)
             THEN [product[p] EXCEPT !.stock = product[p].stock - checkout[c].basket[p]]
             ELSE product[p]
      BY <1>4 DEF CommitSale, SetStock
    <2> QED BY <1>2, <1>3, <2>1
  <1>5. ASSUME NEW v \in Voiders, CommitVoid(v)
        PROVE  (Exists(p)' <=> Exists(p)) /\ (TracksStock(product[p])' <=> TracksStock(product[p]))
    <2>1. product'[p] = IF p \in LockedBy(v)
             THEN [product[p] EXCEPT !.stock = Restocked(v, p)] ELSE product[p]
      BY <1>5 DEF CommitVoid, SetStock
    <2> QED BY <1>2, <1>3, <2>1
  <1>6. ASSUME NEW c \in Cashiers,
               \/ OpenCheckout(c) \/ RefuseCommit(c) \/ FailCheckout(c)
               \/ \E q \in Products : PriceLine(c, q) \/ RefuseLine(c, q)
        PROVE  UNCHANGED product
    BY <1>6 DEF OpenCheckout, RefuseCommit, FailCheckout, PriceLine, RefuseLine, inventoryVars
  <1>7. ASSUME NEW v \in Voiders,
               \/ \E s \in Cashiers : OpenVoid(v, s) \/ RefuseVoid(v, s)
               \/ \E q \in Products : ReadItem(v, q)
               \/ WriteItem(v) \/ MarkPartial(v) \/ AbortVoid(v)
        PROVE  UNCHANGED product
    BY <1>7 DEF OpenVoid, RefuseVoid, ReadItem, WriteItem, MarkPartial, AbortVoid, inventoryVars
  <1>8. CASE UNCHANGED SalesVars
    BY <1>1, <1>8 DEF SalesVars, inventoryVars
  <1> QED
    BY <1>1, <1>4, <1>5, <1>6, <1>7, <1>8 DEF SalesNext, CheckoutStep, VoidStep

\* A sale that exists keeps its lines and its checkout; one that appears was
\* committed by its own checkout.
LEMMA SoldKept ==
    ASSUME SalesTypeInv, SalesAreMadeOnce, [SalesNext]_SalesVars, NEW s \in Cashiers
    PROVE  /\ s \in Sold => /\ s \in Sold' /\ sale'[s].items = sale[s].items
                            /\ checkout'[s] = checkout[s] /\ Stocked(s)' = Stocked(s)
           /\ s \notin Sold /\ s \in Sold' => CommitSale(s)
  <1>0. SalesTypeOK /\ (s \in Sold => checkout[s].pc = "done")
    BY DEF SalesTypeInv, SalesAreMadeOnce, Sold
  <1>1. checkout'[s] = checkout[s] => Stocked(s)' = Stocked(s)
    BY DEF Stocked, Lines
  <1>2. ASSUME UNCHANGED sale, s \in Sold => checkout'[s] = checkout[s]
        PROVE  /\ s \in Sold => /\ s \in Sold' /\ sale'[s].items = sale[s].items
                                /\ checkout'[s] = checkout[s] /\ Stocked(s)' = Stocked(s)
               /\ s \notin Sold => s \notin Sold'
    BY <1>1, <1>2 DEF Sold
  <1>3. ASSUME NEW c \in Cashiers,
               \/ OpenCheckout(c) \/ RefuseCommit(c) \/ FailCheckout(c)
               \/ \E q \in Products : PriceLine(c, q) \/ RefuseLine(c, q)
        PROVE  UNCHANGED sale /\ (s \in Sold => checkout'[s] = checkout[s])
    <2>1. PICK row : checkout' = [checkout EXCEPT ![c] = row]
      BY <1>3 DEF OpenCheckout, RefuseCommit, FailCheckout, PriceLine, RefuseLine
    <2>2. checkout[c].pc # "done" /\ UNCHANGED sale
      BY <1>3 DEF OpenCheckout, RefuseCommit, FailCheckout, PriceLine, RefuseLine, Priced
    <2> QED BY <1>0, <2>1, <2>2 DEF SalesTypeOK
  <1>4. ASSUME NEW c \in Cashiers, CommitSale(c), s # c
        PROVE  sale'[s] = sale[s] /\ checkout'[s] = checkout[s]
    BY <1>0, <1>4 DEF CommitSale, SalesTypeOK
  <1>5. ASSUME NEW c \in Cashiers, CommitSale(c)
        PROVE  /\ s \in Sold => /\ s \in Sold' /\ sale'[s].items = sale[s].items
                                /\ checkout'[s] = checkout[s] /\ Stocked(s)' = Stocked(s)
               /\ s \notin Sold /\ s \in Sold' => s = c
    <2>1. c \notin Sold
      BY <1>5 DEF CommitSale, Priced, SalesAreMadeOnce, Sold
    <2> QED BY <1>1, <1>4, <1>5, <2>1 DEF Sold
  <1>6. ASSUME NEW v \in Voiders,
               \/ \E t \in Cashiers : OpenVoid(v, t) \/ RefuseVoid(v, t)
               \/ \E q \in Products : ReadItem(v, q)
               \/ WriteItem(v) \/ AbortVoid(v)
        PROVE  UNCHANGED <<sale, checkout>>
    BY <1>6 DEF OpenVoid, RefuseVoid, ReadItem, WriteItem, AbortVoid
  <1>7. ASSUME NEW v \in Voiders, CommitVoid(v) \/ MarkPartial(v)
        PROVE  /\ sale'[s].items = sale[s].items /\ checkout'[s] = checkout[s]
               /\ s \in Sold' <=> s \in Sold
    <2>1. void[v].sale \in Cashiers /\ sale[void[v].sale].status # "none"
      BY <1>7 DEF CommitVoid, MarkPartial, SalesTypeInv, VoidsNameSales, SalesAreMadeOnce
    <2> QED BY <1>0, <1>7, <2>1 DEF CommitVoid, MarkPartial, SalesTypeOK, SaleRow, Sold
  <1>8. CASE UNCHANGED SalesVars
    BY <1>2, <1>8 DEF SalesVars, salesVars
  <1> QED
    BY <1>1, <1>2, <1>3, <1>5, <1>6, <1>7, <1>8 DEF SalesNext, CheckoutStep, VoidStep

\* What is read of a product stays true.
LEMMA SalesStepKinds ==
    ASSUME SalesTypeInv, KindsAreRead, [SalesNext]_SalesVars
    PROVE  KindsAreRead'
  <1>0. SalesTypeOK
    BY DEF SalesTypeInv
  <1> SUFFICES ASSUME NEW c \in Cashiers, NEW p \in Products
               PROVE  /\ checkout'[c].read[p] = "tracked" => Exists(p)' /\ TracksStock(product[p])'
                      /\ checkout'[c].read[p] = "untracked" => ~TracksStock(product[p])'
    BY DEF KindsAreRead
  <1>1. (Exists(p)' <=> Exists(p)) /\ (TracksStock(product[p])' <=> TracksStock(product[p]))
    BY KindsKept
  <1>2. checkout'[c].read[p] = checkout[c].read[p] \/ PriceLine(c, p)
    <2>1. ASSUME NEW d \in Cashiers,
                 OpenCheckout(d) \/ CommitSale(d) \/ RefuseCommit(d) \/ FailCheckout(d)
                   \/ \E q \in Products : RefuseLine(d, q)
          PROVE  checkout'[c].read = checkout[c].read
      <3>0. checkout[d] \in Checkout /\ checkout \in [Cashiers -> Checkout]
        BY <1>0 DEF SalesTypeOK
      <3>1. ASSUME NEW pc, NEW row, row = [checkout[d] EXCEPT !.pc = pc]
            PROVE  row.read = checkout[d].read
        BY <3>0, <3>1 DEF Checkout
      <3>2. ASSUME NEW pc, NEW basket, NEW row,
                   row = [checkout[d] EXCEPT !.pc = pc, !.basket = basket]
            PROVE  row.read = checkout[d].read
        BY <3>0, <3>2 DEF Checkout
      <3>3. PICK row : checkout' = [checkout EXCEPT ![d] = row] /\ row.read = checkout[d].read
        <4>1. CASE OpenCheckout(d)
          <5>1. PICK basket : checkout' = [checkout EXCEPT
                   ![d] = [checkout[d] EXCEPT !.pc = "pricing", !.basket = basket]]
            BY <4>1 DEF OpenCheckout
          <5> QED BY <3>2, <5>1
        <4>2. CASE CommitSale(d)
          <5>1. checkout' = [checkout EXCEPT ![d] = [checkout[d] EXCEPT !.pc = "done"]]
            BY <4>2 DEF CommitSale
          <5> QED BY <3>1, <5>1
        <4>3. CASE RefuseCommit(d) \/ FailCheckout(d) \/ \E q \in Products : RefuseLine(d, q)
          <5>1. checkout' = [checkout EXCEPT ![d] = [checkout[d] EXCEPT !.pc = "refused"]]
            BY <4>3 DEF RefuseCommit, FailCheckout, RefuseLine
          <5> QED BY <3>1, <5>1
        <4> QED BY <2>1, <4>1, <4>2, <4>3
      <3> QED BY <3>0, <3>3
    <2>2. ASSUME NEW d \in Cashiers, NEW q \in Products, PriceLine(d, q)
          PROVE  checkout'[c].read[p] = checkout[c].read[p] \/ (d = c /\ q = p)
      <3>1. checkout[d].read \in [Products -> {"unread", "tracked", "untracked"}]
        BY <1>0 DEF SalesTypeOK, Checkout
      <3>2. CASE d # c
        BY <1>0, <2>2, <3>2 DEF PriceLine, SalesTypeOK
      <3>3. CASE d = c
        BY <1>0, <2>2, <3>1, <3>3 DEF PriceLine, SalesTypeOK, Checkout
      <3> QED BY <3>2, <3>3
    <2>3. ASSUME NEW v \in Voiders,
                 \/ \E t \in Cashiers : OpenVoid(v, t) \/ RefuseVoid(v, t)
                 \/ \E q \in Products : ReadItem(v, q)
                 \/ WriteItem(v) \/ CommitVoid(v) \/ MarkPartial(v) \/ AbortVoid(v)
          PROVE  UNCHANGED checkout
      BY <2>3 DEF OpenVoid, RefuseVoid, ReadItem, WriteItem, CommitVoid, MarkPartial, AbortVoid
    <2>4. UNCHANGED SalesVars => UNCHANGED checkout
      BY DEF SalesVars, salesVars
    <2> QED BY <2>1, <2>2, <2>3, <2>4 DEF SalesNext, CheckoutStep, VoidStep
  <1>3. CASE checkout'[c].read[p] = checkout[c].read[p]
    BY <1>1, <1>3 DEF KindsAreRead
  <1>4. CASE PriceLine(c, p)
    <2>1. Exists(p) /\ checkout'[c].read[p] = IF TracksStock(product[p]) THEN "tracked" ELSE "untracked"
      BY <1>0, <1>4 DEF PriceLine, Active, SalesTypeOK, Checkout
    <2> QED BY <1>1, <2>1
  <1> QED BY <1>2, <1>3, <1>4

\* A sale is committed with the basket of its checkout, when all of it is priced.
LEMMA SalesStepBaskets ==
    ASSUME SalesTypeInv, SalesAreMadeOnce, SalesAreTheirBaskets, [SalesNext]_SalesVars
    PROVE  SalesAreTheirBaskets'
  <1> SUFFICES ASSUME NEW s \in Sold'
               PROVE  /\ sale'[s].items = checkout'[s].basket
                      /\ \A p \in Lines(checkout'[s].basket) : checkout'[s].read[p] # "unread"
    BY DEF SalesAreTheirBaskets, Lines
  <1>1. s \in Cashiers
    BY DEF Sold
  <1>2. CASE s \in Sold
    BY <1>1, <1>2, SoldKept DEF SalesAreTheirBaskets
  <1>3. CASE s \notin Sold
    <2>1. CommitSale(s)
      BY <1>1, <1>3, SoldKept
    <2>2. sale'[s].items = checkout[s].basket
      BY <1>1, <2>1 DEF CommitSale, SalesTypeInv, SalesTypeOK
    <2>3. checkout'[s].basket = checkout[s].basket /\ checkout'[s].read = checkout[s].read
      BY <1>1, <2>1 DEF CommitSale, SalesTypeInv, SalesTypeOK, Checkout
    <2> QED BY <2>1, <2>2, <2>3 DEF CommitSale, Priced
  <1> QED BY <1>2, <1>3
\* A void that is at work has each tracked line of its sale locked, in hand or to do.
LEMMA SalesStepCollects ==
    ASSUME SalesTypeInv, SalesAreMadeOnce, LocksAreOfVoids, KindsAreRead, SalesAreTheirBaskets,
           VoidsCollectTheirSales, [SalesNext]_SalesVars
    PROVE  VoidsCollectTheirSales'
  <1>0. SalesTypeOK /\ lock \in [Products -> Requests \cup {None}] /\ None \notin Voiders
    BY SalesAssumption, InventoryAssumption DEF SalesTypeInv, SalesTypeOK, InventoryTypeOK
  <1> SUFFICES ASSUME NEW w \in VoidsAtWork' PROVE CollectsItsSale(w)'
    BY DEF VoidsCollectTheirSales
  <1>1. w \in Voiders
    BY DEF VoidsAtWork
  <1>2. w \in VoidsAtWork => /\ void[w].sale \in Sold /\ CollectsItsSale(w)
                             /\ void[w].pc = "writing" => void[w].current \in Products
    BY <1>1 DEF VoidsAtWork, SalesTypeInv, VoidsNameSales, SalesAreMadeOnce, Sold,
                VoidsCollectTheirSales
  <1>3. \A s \in Sold : /\ s \in Cashiers /\ sale'[s].items = sale[s].items
                        /\ Stocked(s)' = Stocked(s)
    BY SoldKept DEF Sold
  <1>4. ASSUME w \in VoidsAtWork, void'[w].pc = void[w].pc, void'[w].sale = void[w].sale,
               void'[w].todo = void[w].todo, void'[w].current = void[w].current,
               LockedBy(w)' = LockedBy(w)
        PROVE  CollectsItsSale(w)'
    BY <1>2, <1>3, <1>4 DEF CollectsItsSale, Collected, Lines
  <1>5. ASSUME NEW c \in Cashiers,
               \/ OpenCheckout(c) \/ CommitSale(c) \/ RefuseCommit(c) \/ FailCheckout(c)
               \/ \E q \in Products : PriceLine(c, q) \/ RefuseLine(c, q)
        PROVE  CollectsItsSale(w)'
    <2>1. UNCHANGED <<void, lock>>
      BY <1>5 DEF OpenCheckout, CommitSale, RefuseCommit, FailCheckout, PriceLine, RefuseLine,
                  inventoryVars
    <2> QED BY <1>4, <2>1 DEF VoidsAtWork, LockedBy
  <1>6. ASSUME NEW v \in Voiders, NEW s \in Cashiers, OpenVoid(v, s)
        PROVE  CollectsItsSale(w)'
    <2>1. UNCHANGED lock /\ void[v].pc = "idle" /\ s \in Sold
      BY <1>6 DEF OpenVoid, Voidable, Sold, inventoryVars
    <2>2. /\ \A x \in Voiders : x # v => void'[x] = void[x]
          /\ void'[v].sale = s /\ void'[v].pc \in {"restocking", "marking"}
          /\ void'[v].pc = "restocking" => void'[v].todo = Lines(sale[s].items)
      BY <1>0, <1>6, OpenVoidFields
    <2>3. LockedBy(v)' = {}
      BY <1>0, <2>1 DEF LockedBy, LocksAreOfVoids, VoidsAtWork
    <2>4. CASE w # v
      BY <1>1, <1>4, <2>1, <2>2, <2>4 DEF VoidsAtWork, LockedBy
    <2>5. CASE w = v
      <3>1. void'[v].pc = "restocking" /\ void'[v].todo = Lines(sale[s].items)
        BY <2>2, <2>5 DEF VoidsAtWork
      <3>2. Stocked(s) \subseteq Lines(sale[s].items)
        BY <2>1 DEF SalesAreTheirBaskets, Stocked
      <3>3. Collected(v)' = Stocked(s)'
        BY <1>3, <2>1, <2>2, <2>3, <3>1, <3>2 DEF Collected
      <3>4. Lines(sale[s].items)' = Lines(sale[s].items)
        BY <1>3, <2>1 DEF Lines
      <3> QED BY <2>2, <2>5, <3>1, <3>3, <3>4 DEF CollectsItsSale
    <2> QED BY <2>4, <2>5
  <1>7. ASSUME NEW v \in Voiders, NEW p \in Products, ReadItem(v, p)
        PROVE  CollectsItsSale(w)'
    <2>1. UNCHANGED lock /\ void[v].pc = "restocking" /\ p \in void[v].todo
      BY <1>7 DEF ReadItem, inventoryVars
    <2>2. /\ \A x \in Voiders : x # v => void'[x] = void[x]
          /\ void'[v].sale = void[v].sale /\ void'[v].todo = void[v].todo \ {p}
          /\ Exists(p) /\ TracksStock(product[p]) => void'[v].pc = "writing" /\ void'[v].current = p
          /\ ~(Exists(p) /\ TracksStock(product[p])) => void'[v].pc = "restocking"
      BY <1>7, ReadItemFields
    <2>3. LockedBy(w)' = LockedBy(w)
      BY <2>1 DEF LockedBy
    <2>4. CASE w # v
      BY <1>1, <1>4, <2>2, <2>3, <2>4 DEF VoidsAtWork
    <2>5. CASE w = v
      <3>0. PICK s \in Sold : s = void[v].sale
        BY <1>2, <2>1, <2>5 DEF VoidsAtWork
      <3>1. v \in VoidsAtWork /\ CollectsItsSale(v)
        BY <1>2, <2>1, <2>5 DEF VoidsAtWork
      <3>2. p \in Lines(sale[s].items)
        BY <3>0, <2>1, <3>1 DEF CollectsItsSale
      <3>3. p \in Stocked(s) <=> Exists(p) /\ TracksStock(product[p])
        <4>1. s \in Cashiers /\ p \in Lines(checkout[s].basket) /\ checkout[s].read[p] # "unread"
          BY <3>0, <3>1, <3>2 DEF SalesAreTheirBaskets, Sold
        <4>2. checkout[s].read[p] \in {"unread", "tracked", "untracked"}
          BY <1>0, <4>1 DEF SalesTypeOK, Checkout
        <4> QED BY <4>1, <4>2 DEF Stocked, KindsAreRead
      <3>4. LockedBy(v) \cup (void[v].todo \cap Stocked(s)) = Stocked(s)
        BY <3>0, <2>1, <3>1 DEF CollectsItsSale, Collected
      <3>5. Stocked(s)' = Stocked(s) /\ Lines(sale[s].items)' = Lines(sale[s].items)
        BY <1>3 DEF Lines
      <3>6. Collected(v)' = Stocked(s)
        <4>1. CASE p \in Stocked(s)
          BY <3>0, <2>1, <2>2, <2>3, <2>5, <3>3, <3>4, <3>5, <4>1 DEF Collected
        <4>2. CASE p \notin Stocked(s)
          BY <3>0, <2>1, <2>2, <2>3, <2>5, <3>3, <3>4, <3>5, <4>2 DEF Collected
        <4> QED BY <4>1, <4>2
      <3>7. void'[v].todo \subseteq Lines(sale[s].items)
        BY <3>0, <2>2, <3>1 DEF CollectsItsSale
      <3> QED BY <2>2, <2>5, <3>0, <3>5, <3>6, <3>7 DEF CollectsItsSale
    <2> QED BY <2>4, <2>5
  <1>8. ASSUME NEW v \in Voiders, WriteItem(v)
        PROVE  CollectsItsSale(w)'
    <2> DEFINE p == void[v].current
    <2>1. /\ void[v].pc = "writing" /\ lock[p] = None
          /\ void' = [void EXCEPT ![v].pc = "restocking"] /\ lock' = [lock EXCEPT ![p] = v]
      BY <1>8 DEF WriteItem, Unlocked
    <2>2. \A x \in Voiders : /\ void'[x].sale = void[x].sale /\ void'[x].todo = void[x].todo
                             /\ void'[x].current = void[x].current
                             /\ x # v => void'[x].pc = void[x].pc
      BY <1>0, <2>1, VoidMoves
    <2>3. void'[v].pc = "restocking"
      BY <1>0, <2>1, VoidMoves
    <2>4. p \in Products
      BY <2>1 DEF SalesTypeInv, VoidsNameSales
    <2> HIDE DEF p
    <2>5. CASE w # v
      <3>1. LockedBy(w)' = LockedBy(w)
        BY <1>0, <1>1, <2>1, <2>5 DEF LockedBy
      <3> QED BY <1>1, <1>4, <2>2, <2>5, <3>1 DEF VoidsAtWork
    <2>6. CASE w = v
      <3>0. PICK s \in Sold : s = void[v].sale
        BY <1>2, <2>1, <2>6 DEF VoidsAtWork
      <3>1. v \in VoidsAtWork /\ CollectsItsSale(v)
        BY <1>2, <2>1, <2>6 DEF VoidsAtWork
      <3>2. LockedBy(v)' = LockedBy(v) \cup {p}
        BY <1>0, <2>1, <2>4 DEF LockedBy
      <3>3. Stocked(s)' = Stocked(s) /\ Lines(sale[s].items)' = Lines(sale[s].items)
        BY <1>3 DEF Lines
      <3>4. Collected(v) = LockedBy(v) \cup (void[v].todo \cap Stocked(s)) \cup {p}
        BY <3>0, <2>1, <2>4 DEF Collected, p
      <3>5. Collected(v)' = LockedBy(v)' \cup (void[v].todo \cap Stocked(s))
        BY <3>0, <2>2, <2>3, <3>3 DEF Collected
      <3> QED BY <3>0, <2>2, <2>6, <3>1, <3>2, <3>3, <3>4, <3>5 DEF CollectsItsSale
    <2> QED BY <2>5, <2>6
  <1>9. ASSUME NEW v \in Voiders,
               \/ \E s \in Cashiers : RefuseVoid(v, s)
               \/ CommitVoid(v) \/ MarkPartial(v) \/ AbortVoid(v)
        PROVE  CollectsItsSale(w)'
    <2>1. PICK pc \in {"refused", "done"} : void' = [void EXCEPT ![v].pc = pc]
      BY <1>9 DEF RefuseVoid, CommitVoid, MarkPartial, AbortVoid
    <2>2. \A x \in Voiders : /\ void'[x].sale = void[x].sale /\ void'[x].todo = void[x].todo
                             /\ void'[x].current = void[x].current
                             /\ x # v => void'[x].pc = void[x].pc
      BY <1>0, <2>1, VoidMoves
    <2>3. void'[v].pc \in {"refused", "done"}
      BY <1>0, <2>1, VoidMoves
    <2>4. w # v
      BY <2>3 DEF VoidsAtWork
    <2>5. UNCHANGED lock \/ lock' = [p \in Products |-> IF lock[p] = v THEN None ELSE lock[p]]
      BY <1>9 DEF RefuseVoid, CommitVoid, MarkPartial, AbortVoid, Released, inventoryVars
    <2>6. LockedBy(w)' = LockedBy(w)
      BY <1>0, <1>1, <2>4, <2>5 DEF LockedBy
    <2> QED BY <1>1, <1>4, <2>2, <2>4, <2>6 DEF VoidsAtWork
  <1>10. CASE UNCHANGED SalesVars
    BY <1>4, <1>10 DEF SalesVars, salesVars, inventoryVars, VoidsAtWork, LockedBy
  <1> QED
    BY <1>5, <1>6, <1>7, <1>8, <1>9, <1>10 DEF SalesNext, CheckoutStep, VoidStep

\* One more kardex row is a movement of its own type and document.
LEMMA MovementsGrow ==
    ASSUME InventoryTypeOK, NEW p \in Products, NEW type, NEW s, NEW m,
           kardex'[p] = Append(kardex[p], m)
    PROVE  MovementsOf(p, type, s)' # {} <=>
              MovementsOf(p, type, s) # {} \/ (m.type = type /\ m.source = s)
  <1> DEFINE n == Len(kardex[p])
  <1>1. kardex[p] \in Seq(Movement) /\ n \in Nat /\ DOMAIN kardex[p] = 1..n
    BY DEF InventoryTypeOK
  <1>2. /\ DOMAIN kardex'[p] = 1..(n + 1) /\ kardex'[p][n + 1] = m
        /\ \A i \in 1..n : kardex'[p][i] = kardex[p][i]
    BY <1>1
  <1>3. \A i : i \in 1..(n + 1) <=> i \in 1..n \/ i = n + 1
    BY <1>1
  <1>4. \A i : i \in MovementsOf(p, type, s)' <=>
                 /\ i \in 1..(n + 1) /\ kardex'[p][i].type = type /\ kardex'[p][i].source = s
    BY <1>2 DEF MovementsOf
  <1>5. \A i : i \in MovementsOf(p, type, s) <=>
                 /\ i \in 1..n /\ kardex[p][i].type = type /\ kardex[p][i].source = s
    BY <1>1 DEF MovementsOf
  <1> HIDE DEF n
  <1>6. ASSUME MovementsOf(p, type, s) # {}
        PROVE  MovementsOf(p, type, s)' # {}
    <2>1. PICK i : i \in MovementsOf(p, type, s)
      BY <1>6
    <2> QED BY <1>2, <1>3, <1>4, <1>5, <2>1
  <1>7. ASSUME m.type = type, m.source = s
        PROVE  MovementsOf(p, type, s)' # {}
    <2>1. n + 1 \in MovementsOf(p, type, s)'
      BY <1>2, <1>3, <1>4, <1>7
    <2> QED BY <2>1
  <1>8. ASSUME NEW i \in MovementsOf(p, type, s)', ~(m.type = type /\ m.source = s)
        PROVE  MovementsOf(p, type, s) # {}
    <2>1. i # n + 1
      BY <1>2, <1>4, <1>8
    <2> QED BY <1>2, <1>3, <1>4, <1>5, <2>1, <1>8
  <1>9. MovementsOf(p, type, s)' # {} => \E i : i \in MovementsOf(p, type, s)'
    OBVIOUS
  <1> QED BY <1>6, <1>7, <1>8, <1>9

\* What a sale has taken out of stock: its lines that were tracked.
LEMMA TakenOutIsStocked ==
    ASSUME SoldUnitsLeaveOnce, NEW s \in Cashiers
    PROVE  TakenOut(s) = IF s \in Sold THEN Stocked(s) ELSE {}
  <1>1. \A p \in Products : MovementsOf(p, "SALE", s) # {} <=> s \in Sold /\ p \in Stocked(s)
    BY DEF SoldUnitsLeaveOnce
  <1> QED BY <1>1 DEF TakenOut, Stocked, Lines

\* A void that commits has locked every line its sale took out of stock.
LEMMA SalesStepWhole ==
    ASSUME SalesTypeInv, SalesAreMadeOnce, SoldUnitsLeaveOnce, SoldUnitsLeaveOnce', WholeInv,
           [SalesNext]_SalesVars
    PROVE  VoidReturnsWholeSale'
  <1>0. SalesTypeOK /\ InventoryTypeOK
    BY DEF SalesTypeInv, SalesTypeOK
  <1> SUFFICES ASSUME NEW s \in Cashiers PROVE ReturnsWhole(s)'
    BY DEF VoidReturnsWholeSale, ReturnsWhole
  <1>1. ReturnsWhole(s)
    BY DEF WholeInv, VoidReturnsWholeSale, ReturnsWhole
  <1>2. s \in Sold => TakenOut(s)' = TakenOut(s)
    <2>1. TakenOut(s) = IF s \in Sold THEN Stocked(s) ELSE {}
      BY TakenOutIsStocked
    <2>2. TakenOut(s)' = IF s \in Sold' THEN Stocked(s)' ELSE {}
      <3>1. \A p \in Products : MovementsOf(p, "SALE", s)' # {} <=> s \in Sold' /\ p \in Stocked(s)'
        BY DEF SoldUnitsLeaveOnce
      <3> QED BY <3>1 DEF TakenOut, Stocked, Lines
    <2> QED BY <2>1, <2>2, SoldKept
  <1>3. s \notin Sold => Returned(s) = {} /\ sale[s].status = "none"
    BY <1>1 DEF Sold, ReturnsWhole
  <1>4. ASSUME Returned(s)' = Returned(s), sale'[s].status = sale[s].status
        PROVE  ReturnsWhole(s)'
    <2>1. CASE s \in Sold
      BY <1>1, <1>2, <1>4, <2>1 DEF ReturnsWhole
    <2>2. CASE s \notin Sold
      BY <1>3, <1>4, <2>2 DEF ReturnsWhole
    <2> QED BY <2>1, <2>2
  <1>5. UNCHANGED kardex => Returned(s)' = Returned(s)
    BY DEF Returned, MovementsOf
  <1>6. ASSUME NEW c \in Cashiers, CommitSale(c)
        PROVE  ReturnsWhole(s)'
    <2>1. Returned(s)' = Returned(s)
      <3>1. ASSUME NEW p \in Products
            PROVE  MovementsOf(p, "RETURN", s)' # {} <=> MovementsOf(p, "RETURN", s) # {}
        <4>1. kardex'[p] = IF p \in MovedBy(c) THEN Append(kardex[p], SaleMovement(c, p)) ELSE kardex[p]
          BY <1>6 DEF CommitSale, Record
        <4>2. SaleMovement(c, p).type # "RETURN"
          BY DEF SaleMovement, MovementRow
        <4>3. CASE p \in MovedBy(c)
          BY <1>0, <4>1, <4>2, <4>3, MovementsGrow
        <4>4. CASE p \notin MovedBy(c)
          BY <4>1, <4>4 DEF MovementsOf
        <4> QED BY <4>3, <4>4
      <3> QED BY <3>1 DEF Returned
    <2>2. CASE s # c
      BY <1>0, <1>4, <1>6, <2>1, <2>2 DEF CommitSale, SalesTypeOK
    <2>3. CASE s = c
      <3>1. s \notin Sold
        BY <1>6, <2>3 DEF CommitSale, Priced, SalesAreMadeOnce, Sold
      <3>2. sale'[s].status = "COMPLETED"
        BY <1>0, <1>6, <2>3 DEF CommitSale, SalesTypeOK
      <3> QED BY <1>3, <2>1, <3>1, <3>2 DEF ReturnsWhole
    <2> QED BY <2>2, <2>3
  <1>7. ASSUME NEW v \in Voiders, CommitVoid(v)
        PROVE  ReturnsWhole(s)'
    <2>1. /\ void[v].pc = "restocking" /\ void[v].todo = {} /\ v \in VoidsAtWork
          /\ void[v].sale \in Cashiers /\ void[v].sale \in Sold
      BY <1>7 DEF CommitVoid, SalesTypeInv, VoidsNameSales, VoidsAtWork, SalesAreMadeOnce, Sold
    <2>2. LockedBy(v) = Stocked(void[v].sale)
      BY <2>1 DEF WholeInv, VoidsCollectTheirSales, CollectsItsSale, Collected
    <2>3. ASSUME NEW p \in Products
          PROVE  MovementsOf(p, "RETURN", s)' # {} <=>
                    MovementsOf(p, "RETURN", s) # {} \/ (p \in LockedBy(v) /\ s = void[v].sale)
      <3>1. kardex'[p] = IF p \in LockedBy(v) THEN Append(kardex[p], ReturnMovement(v, p)) ELSE kardex[p]
        BY <1>7 DEF CommitVoid, Record
      <3>2. ReturnMovement(v, p).type = "RETURN" /\ ReturnMovement(v, p).source = void[v].sale
        BY DEF ReturnMovement, MovementRow
      <3>3. CASE p \in LockedBy(v)
        BY <1>0, <3>1, <3>2, <3>3, MovementsGrow
      <3>4. CASE p \notin LockedBy(v)
        BY <3>1, <3>4 DEF MovementsOf
      <3> QED BY <3>3, <3>4
    <2>4. CASE s = void[v].sale
      <3>1. Returned(s)' = Returned(s) \cup LockedBy(v)
        BY <2>3, <2>4 DEF Returned, LockedBy
      <3>2. TakenOut(s) = Stocked(s)
        BY <2>1, <2>4, TakenOutIsStocked
      <3>3. Returned(s)' = TakenOut(s)'
        BY <1>1, <1>2, <2>1, <2>2, <2>4, <3>1, <3>2 DEF ReturnsWhole
      <3>4. sale'[s].status = "CANCELLED"
        BY <1>0, <1>7, <2>4 DEF CommitVoid, SalesTypeOK, SaleRow
      <3> QED BY <3>3, <3>4 DEF ReturnsWhole
    <2>5. CASE s # void[v].sale
      <3>1. Returned(s)' = Returned(s)
        BY <2>3, <2>5 DEF Returned
      <3>2. sale'[s].status = sale[s].status
        BY <1>0, <1>7, <2>5 DEF CommitVoid, SalesTypeOK
      <3> QED BY <1>4, <3>1, <3>2
    <2> QED BY <2>4, <2>5
  <1>8. ASSUME NEW v \in Voiders, MarkPartial(v)
        PROVE  ReturnsWhole(s)'
    <2>1. void[v].sale \in Cashiers /\ void[v].sale \in Sold /\ UNCHANGED kardex
      BY <1>8 DEF MarkPartial, SalesTypeInv, VoidsNameSales, SalesAreMadeOnce, Sold, inventoryVars
    <2>2. CASE s = void[v].sale
      <3>1. sale'[s].status = "RETURNED_PARTIAL"
        BY <1>0, <1>8, <2>2 DEF MarkPartial, SalesTypeOK, SaleRow
      <3> QED BY <1>1, <1>2, <1>5, <2>1, <2>2, <3>1 DEF ReturnsWhole
    <2>3. CASE s # void[v].sale
      <3>1. sale'[s].status = sale[s].status
        BY <1>0, <1>8, <2>3 DEF MarkPartial, SalesTypeOK
      <3> QED BY <1>4, <1>5, <2>1, <3>1
    <2> QED BY <2>2, <2>3
  <1>9. ASSUME NEW c \in Cashiers,
               \/ OpenCheckout(c) \/ RefuseCommit(c) \/ FailCheckout(c)
               \/ \E q \in Products : PriceLine(c, q) \/ RefuseLine(c, q)
        PROVE  ReturnsWhole(s)'
    <2>1. UNCHANGED <<kardex, sale>>
      BY <1>9 DEF OpenCheckout, RefuseCommit, FailCheckout, PriceLine, RefuseLine, inventoryVars
    <2> QED BY <1>4, <1>5, <2>1
  <1>10. ASSUME NEW v \in Voiders,
               \/ \E t \in Cashiers : OpenVoid(v, t) \/ RefuseVoid(v, t)
               \/ \E q \in Products : ReadItem(v, q)
               \/ WriteItem(v) \/ AbortVoid(v)
        PROVE  ReturnsWhole(s)'
    <2>1. UNCHANGED <<kardex, sale>>
      BY <1>10 DEF OpenVoid, RefuseVoid, ReadItem, WriteItem, AbortVoid, inventoryVars
    <2> QED BY <1>4, <1>5, <2>1
  <1>11. CASE UNCHANGED SalesVars
    BY <1>4, <1>5, <1>11 DEF SalesVars, salesVars, inventoryVars
  <1> QED
    BY <1>6, <1>7, <1>8, <1>9, <1>10, <1>11 DEF SalesNext, CheckoutStep, VoidStep

\* What the theorems on voids rest on: well formed rows, sales that took out their
\* tracked lines once, and voids that collect all of them.
CoreInv == SalesTypeInv /\ NumbersInv /\ SoldUnitsLeaveOnce /\ WholeInv

\* At first no sale is made and no void is at work.
LEMMA CoreInit == SalesAloneInit => CoreInv
  <1> SUFFICES ASSUME InventoryInit, SalesInit
               PROVE  SalesTypeInv /\ NumbersInv /\ SoldUnitsLeaveOnce /\ WholeInv
    BY DEF SalesAloneInit, CoreInv
  <1>1. Sold = {} /\ VoidsAtWork = {}
    BY DEF SalesInit, Sold, VoidsAtWork
  <1>2. \A s \in Cashiers, p \in Products :
           MovementsOf(p, "SALE", s) = {} /\ MovementsOf(p, "RETURN", s) = {}
    BY SalesInitMovements
  <1>3. SoldUnitsLeaveOnce
    BY <1>1, <1>2 DEF SoldUnitsLeaveOnce
  <1>4. VoidReturnsWholeSale
    BY <1>2 DEF VoidReturnsWholeSale, Returned, TakenOut
  <1>5. KindsAreRead
    BY DEF SalesInit, KindsAreRead
  <1>6. SalesAreTheirBaskets /\ VoidsCollectTheirSales
    BY <1>1 DEF SalesAreTheirBaskets, VoidsCollectTheirSales
  <1> QED BY <1>3, <1>4, <1>5, <1>6, SalesInitTypeOK, SalesInitNumbers, SalesInitLocks DEF WholeInv

\* Every step keeps it.
LEMMA CoreNext == CoreInv /\ [SalesNext]_SalesVars => CoreInv'
  <1> SUFFICES ASSUME CoreInv, [SalesNext]_SalesVars PROVE CoreInv'
    OBVIOUS
  <1>0. SalesTypeInv /\ NumbersInv /\ SoldUnitsLeaveOnce /\ WholeInv /\ SalesAreMadeOnce
    BY DEF CoreInv, NumbersInv
  <1>1. SalesTypeInv' /\ NumbersInv'
    BY <1>0, SalesStepTypeOK, SalesStepNumbers
  <1>2. SoldUnitsLeaveOnce'
    BY <1>0, <1>1, SalesStepLeave DEF LeaveInv, NumbersInv
  <1>3. LocksAreOfVoids' /\ KindsAreRead'
    BY <1>0, SalesStepLocks, SalesStepKinds DEF WholeInv
  <1>4. SalesAreTheirBaskets'
    BY <1>0, SalesStepBaskets DEF WholeInv
  <1>5. VoidsCollectTheirSales'
    BY <1>0, SalesStepCollects DEF WholeInv
  <1>6. VoidReturnsWholeSale'
    BY <1>0, <1>2, SalesStepWhole
  <1> QED BY <1>1, <1>2, <1>3, <1>4, <1>5, <1>6 DEF WholeInv, CoreInv

\* Cancelling is all or nothing, for any number of voids of the same sale and
\* whatever aborts between two of its lines, as long as nobody edits the products.
THEOREM SalesReturnWhole == SalesSpec => []VoidReturnsWholeSale
  <1>1. CoreInv => VoidReturnsWholeSale
    BY DEF CoreInv, WholeInv
  <1> QED BY <1>1, CoreInit, CoreNext, PTL DEF SalesSpec
-----------------------------------------------------------------------------
(* The kardex tells the stock, whatever requests cross *)

\* The lines of its sale v has written or is about to write.
InHand(v) == LockedBy(v) \cup {p \in Products : void[v].pc = "writing" /\ p = void[v].current}

\* The stock v computed from is one a row of p left, not older than the SALE of its units.
ReadSinceSale(v, p) ==
    \E first \in MovementsOf(p, "SALE", void[v].sale) : \E j \in first..Len(kardex[p]) :
        void[v].restock[p] - sale[void[v].sale].items[p] = kardex[p][j].newStock

ReadsAreRecent == \A v \in VoidsAtWork : \A p \in InHand(v) : ReadSinceSale(v, p)

\* What KardexTellsTheStock says of one product.
Tells(p) ==
    /\ kardex[p] # <<>> => kardex[p][Len(kardex[p])].newStock = product[p].stock
    /\ \A i \in DOMAIN kardex[p] :
          Follows(p, i) \/ (kardex[p][i].type = "RETURN" /\ ReturnsAfterItsSale(p, i))

\* A step leaves the rows of a product where they were.
LEMMA RowsStay ==
    ASSUME InventoryTypeOK, NEW p \in Products, NEW m,
           kardex'[p] = kardex[p] \/ kardex'[p] = Append(kardex[p], m)
    PROVE  /\ Len(kardex[p]) \in Nat /\ DOMAIN kardex[p] = 1..Len(kardex[p])
           /\ Len(kardex'[p]) \in {Len(kardex[p]), Len(kardex[p]) + 1}
           /\ \A i \in 1..Len(kardex[p]) : kardex'[p][i] = kardex[p][i]
           /\ \A type, s : \A i \in MovementsOf(p, type, s) : i \in MovementsOf(p, type, s)'
  <1> DEFINE n == Len(kardex[p])
  <1>1. kardex[p] \in Seq(Movement) /\ n \in Nat /\ DOMAIN kardex[p] = 1..n
    BY DEF InventoryTypeOK
  <1>2. CASE kardex'[p] = kardex[p]
    BY <1>1, <1>2 DEF MovementsOf
  <1>3. CASE kardex'[p] = Append(kardex[p], m)
    <2>1. /\ DOMAIN kardex'[p] = 1..(n + 1) /\ Len(kardex'[p]) = n + 1
          /\ \A i \in 1..n : kardex'[p][i] = kardex[p][i] /\ i \in 1..(n + 1)
      BY <1>1, <1>3
    <2>2. ASSUME NEW type, NEW s, NEW i \in MovementsOf(p, type, s)
          PROVE  i \in MovementsOf(p, type, s)'
      <3>1. i \in 1..n /\ kardex[p][i].type = type /\ kardex[p][i].source = s
        BY <1>1 DEF MovementsOf
      <3> HIDE DEF n
      <3> QED BY <2>1, <3>1 DEF MovementsOf
    <2> QED BY <1>1, <2>1, <2>2
  <1> QED BY <1>2, <1>3

\* A row that starts at the stored stock, or a RETURN that starts at a stock not
\* older than its SALE, keeps the kardex telling the stock it ends at.
LEMMA TellsAppend ==
    ASSUME InventoryTypeOK, NEW p \in Products, Tells(p), NEW m,
           kardex'[p] = Append(kardex[p], m), product'[p].stock = m.newStock,
           \/ m.previousStock = product[p].stock
           \/ /\ m.type = "RETURN"
              /\ \E first \in MovementsOf(p, "SALE", m.source) : \E j \in first..Len(kardex[p]) :
                    m.previousStock = kardex[p][j].newStock
    PROVE  Tells(p)'
  <1> DEFINE n == Len(kardex[p])
  <1>1. /\ kardex[p] \in Seq(Movement) /\ n \in Nat /\ DOMAIN kardex[p] = 1..n
        /\ Len(kardex'[p]) = n + 1 /\ DOMAIN kardex'[p] = 1..(n + 1) /\ kardex'[p][n + 1] = m
        /\ \A i \in 1..n : kardex'[p][i] = kardex[p][i]
    BY DEF InventoryTypeOK
  <1>2. \A type, s : \A i \in MovementsOf(p, type, s) : i \in 1..n /\ i \in MovementsOf(p, type, s)'
    BY <1>1, RowsStay DEF MovementsOf
  <1>3. ASSUME NEW i \in 1..n
        PROVE  Follows(p, i)' \/ (kardex'[p][i].type = "RETURN" /\ ReturnsAfterItsSale(p, i)')
    <2>1. kardex'[p][i] = kardex[p][i]
      BY <1>1
    <2>2. CASE Follows(p, i)
      <3>1. CASE i = 1
        BY <3>1 DEF Follows
      <3>2. CASE i # 1
        <4>1. i - 1 \in 1..n
          BY <1>1, <3>2
        <4>2. kardex'[p][i - 1] = kardex[p][i - 1]
          BY <1>1, <4>1
        <4> QED BY <2>1, <2>2, <3>2, <4>2 DEF Follows
      <3> QED BY <3>1, <3>2
    <2>3. CASE kardex[p][i].type = "RETURN" /\ ReturnsAfterItsSale(p, i)
      <3>1. PICK first \in MovementsOf(p, "SALE", kardex[p][i].source) : \E j \in first..(i - 1) :
               kardex[p][i].previousStock = kardex[p][j].newStock
        BY <2>3 DEF ReturnsAfterItsSale
      <3>2. PICK j \in first..(i - 1) : kardex[p][i].previousStock = kardex[p][j].newStock
        BY <3>1
      <3>3. j \in 1..n /\ first \in MovementsOf(p, "SALE", kardex[p][i].source)'
        BY <1>1, <1>2, <3>1
      <3>4. kardex'[p][j] = kardex[p][j]
        BY <1>1, <3>3
      <3> HIDE DEF n
      <3> QED BY <2>1, <2>3, <3>2, <3>3, <3>4 DEF ReturnsAfterItsSale
    <2> QED BY <1>1, <2>2, <2>3 DEF Tells
  <1>4. ASSUME NEW k \in Nat, k = n + 1
        PROVE  Follows(p, k)' \/ (kardex'[p][k].type = "RETURN" /\ ReturnsAfterItsSale(p, k)')
    <2>1. CASE n = 0
      BY <1>4, <2>1 DEF Follows
    <2>2. CASE n # 0 /\ m.previousStock = product[p].stock
      <3>1. kardex[p] # <<>> /\ n \in 1..n
        BY <1>1, <2>2
      <3>2. kardex'[p][n].newStock = product[p].stock
        BY <1>1, <3>1 DEF Tells
      <3>3. k - 1 = n /\ kardex'[p][k] = m
        BY <1>1, <1>4
      <3> HIDE DEF n
      <3> QED BY <2>2, <3>2, <3>3 DEF Follows
    <2>3. ASSUME m.type = "RETURN", NEW first \in MovementsOf(p, "SALE", m.source),
                 NEW j \in first..n, m.previousStock = kardex[p][j].newStock
          PROVE  kardex'[p][k].type = "RETURN" /\ ReturnsAfterItsSale(p, k)'
      <3>1. j \in 1..n /\ j \in first..(k - 1) /\ first \in MovementsOf(p, "SALE", m.source)'
        BY <1>1, <1>2, <1>4
      <3>2. kardex'[p][j] = kardex[p][j] /\ kardex'[p][k] = m
        BY <1>1, <1>4, <3>1
      <3> HIDE DEF n
      <3> QED BY <2>3, <3>1, <3>2 DEF ReturnsAfterItsSale
    <2> QED BY <1>1, <2>1, <2>2, <2>3
  <1>5. \A i \in DOMAIN kardex'[p] : i \in 1..n \/ (i \in Nat /\ i = n + 1)
    BY <1>1
  <1>6. kardex'[p][Len(kardex'[p])].newStock = product'[p].stock
    BY <1>1
  <1> HIDE DEF n
  <1> QED BY <1>3, <1>4, <1>5, <1>6 DEF Tells

\* A kardex grows by the row of a sale that is committed, or of a void that is.
LEMMA KardexSteps ==
    ASSUME [SalesNext]_SalesVars, NEW p \in Products
    PROVE  \E m : kardex'[p] = kardex[p] \/ kardex'[p] = Append(kardex[p], m)
  <1>1. ASSUME UNCHANGED kardex
        PROVE  kardex'[p] = kardex[p]
    BY <1>1
  <1>2. ASSUME NEW c \in Cashiers, CommitSale(c)
        PROVE  kardex'[p] = kardex[p] \/ kardex'[p] = Append(kardex[p], SaleMovement(c, p))
    BY <1>2 DEF CommitSale, Record
  <1>3. ASSUME NEW v \in Voiders, CommitVoid(v)
        PROVE  kardex'[p] = kardex[p] \/ kardex'[p] = Append(kardex[p], ReturnMovement(v, p))
    BY <1>3 DEF CommitVoid, Record
  <1>4. ASSUME NEW c \in Cashiers,
               \/ OpenCheckout(c) \/ RefuseCommit(c) \/ FailCheckout(c)
               \/ \E q \in Products : PriceLine(c, q) \/ RefuseLine(c, q)
        PROVE  UNCHANGED kardex
    BY <1>4 DEF OpenCheckout, RefuseCommit, FailCheckout, PriceLine, RefuseLine, inventoryVars
  <1>5. ASSUME NEW v \in Voiders,
               \/ \E s \in Cashiers : OpenVoid(v, s) \/ RefuseVoid(v, s)
               \/ \E q \in Products : ReadItem(v, q)
               \/ WriteItem(v) \/ MarkPartial(v) \/ AbortVoid(v)
        PROVE  UNCHANGED kardex
    BY <1>5 DEF OpenVoid, RefuseVoid, ReadItem, WriteItem, MarkPartial, AbortVoid, inventoryVars
  <1>6. CASE UNCHANGED SalesVars
    BY <1>6 DEF SalesVars, inventoryVars
  <1> QED
    BY <1>1, <1>2, <1>3, <1>4, <1>5, <1>6 DEF SalesNext, CheckoutStep, VoidStep

\* The voids read since their sales, and the kardex tells the stock.
KardexInv == CoreInv /\ ReadsAreRecent /\ \A p \in Products : Tells(p)

\* A line in hand before a step stays read since its sale.
LEMMA RecentKept ==
    ASSUME KardexInv, [SalesNext]_SalesVars, NEW v \in VoidsAtWork, NEW p \in InHand(v),
           void'[v].sale = void[v].sale, void'[v].restock[p] = void[v].restock[p]
    PROVE  ReadSinceSale(v, p)'
  <1>0. InventoryTypeOK /\ SalesTypeInv /\ SalesAreMadeOnce /\ v \in Voiders /\ p \in Products
    BY DEF KardexInv, CoreInv, NumbersInv, SalesTypeInv, SalesTypeOK, VoidsAtWork, InHand, LockedBy
  <1>1. void[v].sale \in Cashiers /\ void[v].sale \in Sold
    BY <1>0 DEF SalesTypeInv, VoidsNameSales, VoidsAtWork, SalesAreMadeOnce, Sold
  <1>2. sale'[void[v].sale].items = sale[void[v].sale].items
    BY <1>0, <1>1, SoldKept
  <1>3. PICK m : kardex'[p] = kardex[p] \/ kardex'[p] = Append(kardex[p], m)
    BY <1>0, KardexSteps
  <1>4. /\ Len(kardex[p]) \in Nat /\ DOMAIN kardex[p] = 1..Len(kardex[p])
        /\ Len(kardex'[p]) \in {Len(kardex[p]), Len(kardex[p]) + 1}
        /\ \A i \in 1..Len(kardex[p]) : kardex'[p][i] = kardex[p][i]
        /\ \A type, s : \A i \in MovementsOf(p, type, s) : i \in MovementsOf(p, type, s)'
    BY <1>0, <1>3, RowsStay
  <1>5. PICK first \in MovementsOf(p, "SALE", void[v].sale) : \E j \in first..Len(kardex[p]) :
           void[v].restock[p] - sale[void[v].sale].items[p] = kardex[p][j].newStock
    BY DEF KardexInv, ReadsAreRecent, ReadSinceSale
  <1>6. PICK j \in first..Len(kardex[p]) :
           void[v].restock[p] - sale[void[v].sale].items[p] = kardex[p][j].newStock
    BY <1>5
  <1>7. first \in 1..Len(kardex[p])
    BY <1>4 DEF MovementsOf
  <1>8. j \in 1..Len(kardex[p]) /\ j \in first..Len(kardex'[p])
    BY <1>4, <1>6, <1>7
  <1>9. kardex'[p][j] = kardex[p][j] /\ first \in MovementsOf(p, "SALE", void[v].sale)'
    BY <1>4, <1>5, <1>8
  <1> QED BY <1>2, <1>6, <1>8, <1>9 DEF ReadSinceSale

\* A row read since its sale, at the moment it is read.
LEMMA ReadIsRecent ==
    ASSUME KardexInv, NEW v \in Voiders, NEW p \in Products, ReadItem(v, p),
           Exists(p), TracksStock(product[p])
    PROVE  ReadSinceSale(v, p)'
  <1>0. /\ SalesTypeInv /\ SalesTypeOK /\ InventoryTypeOK /\ SoldUnitsLeaveOnce /\ SalesAreMadeOnce
        /\ KindsAreRead /\ SalesAreTheirBaskets /\ VoidsCollectTheirSales /\ Tells(p)
    BY DEF KardexInv, CoreInv, NumbersInv, WholeInv, SalesTypeInv, SalesTypeOK
  <1>1. /\ void[v].pc = "restocking" /\ p \in void[v].todo /\ v \in VoidsAtWork
        /\ UNCHANGED <<product, kardex, sale>>
    BY DEF ReadItem, VoidsAtWork, inventoryVars
  <1>2. PICK s \in Cashiers : s = void[v].sale /\ s \in Sold
    BY <1>0, <1>1 DEF SalesTypeInv, VoidsNameSales, SalesAreMadeOnce, Sold
  <1>3. p \in Lines(checkout[s].basket) /\ checkout[s].read[p] # "unread"
    BY <1>0, <1>1, <1>2 DEF VoidsCollectTheirSales, CollectsItsSale, SalesAreTheirBaskets
  <1>4. checkout[s].read[p] \in {"unread", "tracked", "untracked"}
    BY <1>0, <1>2 DEF SalesTypeOK, Checkout
  <1>5. p \in Stocked(s)
    BY <1>0, <1>2, <1>3, <1>4 DEF KindsAreRead, Stocked
  <1>6. PICK first \in MovementsOf(p, "SALE", s) : TRUE
    BY <1>0, <1>2, <1>5 DEF SoldUnitsLeaveOnce
  <1>7. Len(kardex[p]) \in Nat
    BY <1>0 DEF InventoryTypeOK
  <1>8. PICK n \in Nat : n = Len(kardex[p])
    BY <1>7
  <1>9. first \in 1..n
    BY <1>0, <1>6, <1>8 DEF InventoryTypeOK, MovementsOf
  <1>10. n \in first..n /\ kardex[p] # <<>>
    BY <1>0, <1>9, <1>8 DEF InventoryTypeOK
  <1>11. kardex[p][n].newStock = product[p].stock
    BY <1>0, <1>10, <1>8 DEF Tells
  <1>12. void'[v].sale = s /\ void'[v].restock[p] = product[p].stock + sale[s].items[p]
    BY <1>0, <1>2, ReadItemFields
  <1>13. product[p].stock \in Int /\ sale[s].items[p] \in Int
    BY <1>0, <1>2 DEF SalesTypeOK, InventoryTypeOK, ProductRow, SaleRow, Quantities
  <1>14. void'[v].restock[p] - sale[s].items[p] = kardex[p][n].newStock
    BY <1>11, <1>12, <1>13
  <1>15. first \in MovementsOf(p, "SALE", s)'
    BY <1>1, <1>6 DEF MovementsOf
  <1> QED BY <1>1, <1>10, <1>12, <1>14, <1>15, <1>8 DEF ReadSinceSale

\* What a void at work has in hand it had in hand before, or has just read.
LEMMA InHandBefore ==
    ASSUME SalesTypeInv, LocksAreOfVoids, [SalesNext]_SalesVars, NEW w \in VoidsAtWork',
           NEW p \in Products, p \in InHand(w)'
    PROVE  \/ /\ w \in VoidsAtWork /\ p \in InHand(w)
              /\ void'[w].sale = void[w].sale /\ void'[w].restock[p] = void[w].restock[p]
           \/ ReadItem(w, p) /\ Exists(p) /\ TracksStock(product[p])
  <1>0. /\ SalesTypeOK /\ lock \in [Products -> Requests \cup {None}] /\ None \notin Voiders
        /\ w \in Voiders
    BY SalesAssumption, InventoryAssumption
       DEF SalesTypeInv, SalesTypeOK, InventoryTypeOK, VoidsAtWork
  <1> DEFINE Before == /\ w \in VoidsAtWork /\ p \in InHand(w)
                       /\ void'[w].sale = void[w].sale /\ void'[w].restock[p] = void[w].restock[p]
             Read == ReadItem(w, p) /\ Exists(p) /\ TracksStock(product[p])
  <1> SUFFICES Before \/ Read
    OBVIOUS
  <1>1. ASSUME void'[w] = void[w], lock'[p] = w => lock[p] = w
        PROVE  Before
    BY <1>0, <1>1 DEF VoidsAtWork, InHand, LockedBy
  <1>2. ASSUME UNCHANGED <<lock, void>>
        PROVE  Before
    BY <1>1, <1>2
  <1>3. ASSUME NEW c \in Cashiers,
               \/ OpenCheckout(c) \/ RefuseCommit(c) \/ FailCheckout(c) \/ CommitSale(c)
               \/ \E q \in Products : PriceLine(c, q) \/ RefuseLine(c, q)
        PROVE  UNCHANGED <<lock, void>>
    BY <1>3 DEF OpenCheckout, RefuseCommit, FailCheckout, CommitSale, PriceLine, RefuseLine, inventoryVars
  <1>4. ASSUME NEW v \in Voiders, NEW s \in Cashiers, OpenVoid(v, s)
        PROVE  Before
    <2>1. UNCHANGED lock /\ void[v].pc = "idle"
      BY <1>4 DEF OpenVoid, inventoryVars
    <2>2. (\A u \in Voiders : u # v => void'[u] = void[u]) /\ void'[v].pc \in {"restocking", "marking"}
      BY <1>0, <1>4, OpenVoidFields
    <2>3. w # v
      <3>1. v \notin VoidsAtWork
        BY <2>1 DEF VoidsAtWork
      <3>2. lock'[p] # v
        BY <1>0, <2>1, <3>1 DEF LocksAreOfVoids
      <3> QED BY <2>2, <3>2 DEF InHand, LockedBy
    <2> QED BY <1>0, <1>1, <2>1, <2>2, <2>3
  <1>5. ASSUME NEW v \in Voiders, NEW q \in Products, ReadItem(v, q)
        PROVE  Before \/ Read
    <2>1. UNCHANGED lock /\ void[v].pc = "restocking"
      BY <1>5 DEF ReadItem, inventoryVars
    <2>2. /\ \A u \in Voiders : u # v => void'[u] = void[u]
          /\ void'[v].sale = void[v].sale
          /\ \A r \in Products : r # q => void'[v].restock[r] = void[v].restock[r]
      BY <1>5, ReadItemFields
    <2>3. CASE w # v
      BY <1>0, <1>1, <2>1, <2>2, <2>3
    <2>4. CASE w = v /\ p # q
      <3>1. void'[v].pc = "writing" => void'[v].current = q
        BY <1>5, ReadItemFields
      <3>2. lock[p] = w
        BY <2>1, <2>4, <3>1 DEF InHand, LockedBy
      <3> QED BY <1>0, <2>1, <2>2, <2>4, <3>2 DEF VoidsAtWork, InHand, LockedBy
    <2>5. CASE w = v /\ p = q /\ Exists(p) /\ TracksStock(product[p])
      BY <1>5, <2>5
    <2>6. CASE w = v /\ p = q /\ ~(Exists(p) /\ TracksStock(product[p]))
      <3>1. void' = [void EXCEPT ![v].todo = @ \ {q}] /\ void'[v].pc = "restocking"
        BY <1>5, <2>6, ReadItemFields DEF ReadItem
      <3>2. void'[v].restock = void[v].restock
        BY <1>0, <3>1 DEF SalesTypeOK, Void
      <3>3. lock[p] = w
        BY <2>1, <2>6, <3>1 DEF InHand, LockedBy
      <3> QED BY <1>0, <2>1, <2>2, <2>6, <3>2, <3>3 DEF VoidsAtWork, InHand, LockedBy
    <2> QED BY <2>3, <2>4, <2>5, <2>6
  <1>6. ASSUME NEW v \in Voiders,
               \/ \E s \in Cashiers : RefuseVoid(v, s)
               \/ WriteItem(v) \/ CommitVoid(v) \/ MarkPartial(v) \/ AbortVoid(v)
        PROVE  Before
    <2>1. PICK pc \in {"refused", "restocking", "done"} :
             /\ void' = [void EXCEPT ![v].pc = pc]
             /\ pc = "restocking" => void[v].pc = "writing" /\ lock' = [lock EXCEPT ![void[v].current] = v]
             /\ pc # "restocking" => lock' = lock \/ lock' = Released(v)
      BY <1>6 DEF RefuseVoid, WriteItem, CommitVoid, MarkPartial, AbortVoid, inventoryVars
    <2>2. /\ void'[v].pc = pc
          /\ \A u \in Voiders : /\ void'[u].sale = void[u].sale /\ void'[u].current = void[u].current
                                /\ void'[u].restock = void[u].restock
                                /\ u # v => void'[u].pc = void[u].pc
      BY <1>0, <2>1, VoidMoves
    <2>3. w \in VoidsAtWork
      BY <1>0, <2>1, <2>2 DEF VoidsAtWork
    <2>4. CASE w # v
      <3>1. lock'[p] = w => lock[p] = w
        BY <1>0, <2>1, <2>4 DEF Released
      <3> QED BY <1>0, <2>2, <2>3, <2>4, <3>1 DEF InHand, LockedBy
    <2>5. CASE w = v
      <3>1. pc = "restocking"
        BY <2>1, <2>2, <2>5 DEF VoidsAtWork
      <3>2. lock'[p] = v
        BY <2>2, <2>5, <3>1 DEF InHand, LockedBy
      <3>3. lock[p] = v \/ p = void[v].current
        BY <1>0, <2>1, <3>1, <3>2
      <3> QED BY <1>0, <2>1, <2>2, <2>3, <2>5, <3>1, <3>3 DEF InHand, LockedBy
    <2> QED BY <2>4, <2>5
  <1>7. CASE UNCHANGED SalesVars
    BY <1>2, <1>7 DEF SalesVars, salesVars, inventoryVars
  <1> HIDE DEF Before, Read
  <1> QED
    BY <1>2, <1>3, <1>4, <1>5, <1>6, <1>7 DEF SalesNext, CheckoutStep, VoidStep

\* Whatever commits in between, a void writes a stock read since its sale.
LEMMA SalesStepRecent ==
    ASSUME KardexInv, [SalesNext]_SalesVars
    PROVE  ReadsAreRecent'
  <1>0. SalesTypeInv /\ LocksAreOfVoids
    BY DEF KardexInv, CoreInv, WholeInv
  <1> SUFFICES ASSUME NEW w \in VoidsAtWork', NEW p \in InHand(w)'
               PROVE  ReadSinceSale(w, p)'
    BY DEF ReadsAreRecent
  <1>1. p \in Products /\ w \in Voiders
    BY DEF InHand, LockedBy, VoidsAtWork
  <1>2. CASE /\ w \in VoidsAtWork /\ p \in InHand(w)
             /\ void'[w].sale = void[w].sale /\ void'[w].restock[p] = void[w].restock[p]
    BY <1>2, RecentKept
  <1>3. CASE ReadItem(w, p) /\ Exists(p) /\ TracksStock(product[p])
    BY <1>1, <1>3, ReadIsRecent
  <1> QED BY <1>0, <1>1, <1>2, <1>3, InHandBefore

\* The row of a sale starts at the stored stock, that of a void at what it read.
LEMMA SalesStepTells ==
    ASSUME KardexInv, [SalesNext]_SalesVars
    PROVE  \A p \in Products : Tells(p)'
  <1>0. SalesTypeInv /\ SalesTypeOK /\ InventoryTypeOK
    BY DEF KardexInv, CoreInv, SalesTypeInv, SalesTypeOK
  <1> SUFFICES ASSUME NEW p \in Products PROVE Tells(p)'
    OBVIOUS
  <1>1. Tells(p)
    BY DEF KardexInv
  <1>2. ASSUME kardex'[p] = kardex[p], product'[p] = product[p]
        PROVE  Tells(p)'
    BY <1>1, <1>2 DEF Tells, Follows, ReturnsAfterItsSale, MovementsOf
  <1>3. ASSUME NEW c \in Cashiers, CommitSale(c)
        PROVE  Tells(p)'
    <2>1. /\ kardex'[p] = IF p \in MovedBy(c) THEN Append(kardex[p], SaleMovement(c, p)) ELSE kardex[p]
          /\ product'[p] = IF p \in MovedBy(c)
                THEN [product[p] EXCEPT !.stock = product[p].stock - checkout[c].basket[p]]
                ELSE product[p]
      BY <1>3 DEF CommitSale, Record, SetStock
    <2>2. CASE p \in MovedBy(c)
      <3>1. product[p].stock \in Int /\ checkout[c].basket[p] \in Int /\ product[p] \in ProductRow
        BY <1>0 DEF SalesTypeOK, InventoryTypeOK, ProductRow, Checkout, Quantities
      <3>2. (product[p].stock - checkout[c].basket[p]) + checkout[c].basket[p] = product[p].stock
        BY <3>1
      <3>3. PICK m : m = SaleMovement(c, p)
        OBVIOUS
      <3>4. m.previousStock = product[p].stock /\ m.newStock = product[p].stock - checkout[c].basket[p]
        BY <3>2, <3>3 DEF SaleMovement, MovementRow
      <3>5. product'[p].stock = m.newStock
        BY <2>1, <2>2, <3>1, <3>4 DEF ProductRow
      <3>6. kardex'[p] = Append(kardex[p], m)
        BY <2>1, <2>2, <3>3
      <3> QED BY <1>0, <1>1, <3>4, <3>5, <3>6, TellsAppend
    <2>3. CASE p \notin MovedBy(c)
      BY <1>2, <2>1, <2>3
    <2> QED BY <2>2, <2>3
  <1>4. ASSUME NEW v \in Voiders, CommitVoid(v)
        PROVE  Tells(p)'
    <2>1. /\ kardex'[p] = IF p \in LockedBy(v) THEN Append(kardex[p], ReturnMovement(v, p)) ELSE kardex[p]
          /\ product'[p] = IF p \in LockedBy(v)
                THEN [product[p] EXCEPT !.stock = void[v].restock[p]] ELSE product[p]
      BY <1>4 DEF CommitVoid, Record, SetStock, Restocked
    <2>2. CASE p \in LockedBy(v)
      <3>1. ReadSinceSale(v, p)
        BY <1>4, <2>2 DEF CommitVoid, VoidsAtWork, InHand, KardexInv, ReadsAreRecent
      <3>2. PICK m : m = ReturnMovement(v, p)
        OBVIOUS
      <3>3. /\ m.type = "RETURN" /\ m.source = void[v].sale /\ m.newStock = void[v].restock[p]
            /\ m.previousStock = void[v].restock[p] - sale[void[v].sale].items[p]
        BY <3>2 DEF ReturnMovement, MovementRow
      <3>4. product'[p].stock = m.newStock
        BY <1>0, <2>1, <2>2, <3>3 DEF InventoryTypeOK, ProductRow
      <3>5. kardex'[p] = Append(kardex[p], m)
        BY <2>1, <2>2, <3>2
      <3>6. \E first \in MovementsOf(p, "SALE", m.source) : \E j \in first..Len(kardex[p]) :
               m.previousStock = kardex[p][j].newStock
        BY <3>1, <3>3 DEF ReadSinceSale
      <3> QED BY <1>0, <1>1, <3>3, <3>4, <3>5, <3>6, TellsAppend
    <2>3. CASE p \notin LockedBy(v)
      BY <1>2, <2>1, <2>3
    <2> QED BY <2>2, <2>3
  <1>5. ASSUME UNCHANGED <<product, kardex>>
        PROVE  Tells(p)'
    BY <1>2, <1>5
  <1>6. ASSUME NEW c \in Cashiers,
               \/ OpenCheckout(c) \/ RefuseCommit(c) \/ FailCheckout(c)
               \/ \E q \in Products : PriceLine(c, q) \/ RefuseLine(c, q)
        PROVE  Tells(p)'
    BY <1>5, <1>6 DEF OpenCheckout, RefuseCommit, FailCheckout, PriceLine, RefuseLine, inventoryVars
  <1>7. ASSUME NEW v \in Voiders,
               \/ \E s \in Cashiers : OpenVoid(v, s) \/ RefuseVoid(v, s)
               \/ \E q \in Products : ReadItem(v, q)
               \/ WriteItem(v) \/ MarkPartial(v) \/ AbortVoid(v)
        PROVE  Tells(p)'
    BY <1>5, <1>7 DEF OpenVoid, RefuseVoid, ReadItem, WriteItem, MarkPartial, AbortVoid, inventoryVars
  <1>8. CASE UNCHANGED SalesVars
    BY <1>5, <1>8 DEF SalesVars, inventoryVars
  <1> QED
    BY <1>3, <1>4, <1>6, <1>7, <1>8 DEF SalesNext, CheckoutStep, VoidStep

\* Whatever checkouts and voids cross, the last row of the kardex is the stored
\* stock and the rows tell one history, but for the RETURN of a void: it starts at
\* a stock that the product had since the sale it cancels.
THEOREM SalesKardexTells == SalesSpec => []KardexTellsTheStock
  <1>1. SalesAloneInit => KardexInv
    <2> SUFFICES ASSUME SalesAloneInit PROVE KardexInv
      OBVIOUS
    <2>1. CoreInv
      BY CoreInit
    <2>2. ReadsAreRecent
      BY DEF SalesAloneInit, SalesInit, ReadsAreRecent, VoidsAtWork
    <2>3. ASSUME NEW p \in Products PROVE Tells(p)
      <3>1. \/ kardex[p] = <<>>
            \/ kardex[p] = <<MovementRow("PURCHASE", 0, product[p].stock, None)>>
        BY DEF SalesAloneInit, InventoryInit
      <3> QED BY <3>1 DEF Tells, Follows, MovementRow
    <2> QED BY <2>1, <2>2, <2>3 DEF KardexInv
  <1>2. KardexInv /\ [SalesNext]_SalesVars => KardexInv'
    <2> SUFFICES ASSUME KardexInv, [SalesNext]_SalesVars PROVE KardexInv'
      OBVIOUS
    <2>1. CoreInv'
      BY CoreNext DEF KardexInv
    <2> QED BY <2>1, SalesStepRecent, SalesStepTells DEF KardexInv
  <1>3. KardexInv => KardexTellsTheStock
    BY DEF KardexInv, Tells, KardexTellsTheStock
  <1> QED BY <1>1, <1>2, <1>3, PTL DEF SalesSpec
-----------------------------------------------------------------------------
(* The service implements the sale book, but for the updates that were overtaken *)

\* The units the rows of a kardex move for one document.
MovedFor(rows, s) ==
    SumFunctionOnSet([i \in DOMAIN rows |-> rows[i].quantity], {i \in DOMAIN rows : rows[i].source = s})

\* They are a number, and one more row adds its units if it is the document's.
LEMMA MovedForAppend ==
    ASSUME NEW rows \in Seq(Movement), NEW m \in Movement, NEW s
    PROVE  /\ MovedFor(rows, s) \in Int
           /\ MovedFor(Append(rows, m), s) = MovedFor(rows, s) + (IF m.source = s THEN m.quantity ELSE 0)
  <1> DEFINE n == Len(rows)
             more == Append(rows, m)
             f == [i \in DOMAIN rows |-> rows[i].quantity]
             g == [i \in DOMAIN more |-> more[i].quantity]
             S == {i \in DOMAIN rows : rows[i].source = s}
             T == {i \in DOMAIN more : more[i].source = s}
  <1>1. n \in Nat /\ DOMAIN rows = 1..n /\ DOMAIN more = 1..(n + 1) /\ IsFiniteSet(1..n)
    BY FS_Interval
  <1>2. 1..(n + 1) = (1..n) \cup {n + 1} /\ n + 1 \notin 1..n
    BY <1>1
  <1>3. \A i \in 1..n : more[i] = rows[i] /\ rows[i] \in Movement
    BY <1>1
  <1>4. more[n + 1] = m
    OBVIOUS
  <1>5. (\A i \in 1..n : f[i] = g[i] /\ f[i] \in Int) /\ g[n + 1] = m.quantity /\ m.quantity \in Int
    BY <1>1, <1>2, <1>3, <1>4 DEF Movement
  <1>6. IsFiniteSet(S) /\ S \subseteq 1..n
    BY <1>1, FS_Subset
  <1>7. T = IF m.source = s THEN S \cup {n + 1} ELSE S
    BY <1>1, <1>2, <1>3, <1>4
  <1> DEFINE last == n + 1
  <1>8. last \notin S /\ g[last] = m.quantity
    BY <1>2, <1>5, <1>6
  <1> HIDE DEF f, g, more, n, S, T, last
  <1>9. \A i \in S : f[i] = g[i] /\ f[i] \in Int /\ g[i] \in Int
    BY <1>5, <1>6
  <1>10. SumFunctionOnSet(f, S) = SumFunctionOnSet(g, S)
    BY <1>6, <1>9, SumSame
  <1>11. SumFunctionOnSet(f, S) \in Int
    BY <1>6, <1>9, SumInt
  <1>12. SumFunctionOnSet(g, S \cup {last}) = SumFunctionOnSet(g, S) + g[last]
    <2>1. \A i \in S \cup {last} : g[i] \in Int
      BY <1>5, <1>8, <1>9
    <2> QED BY <1>6, <1>8, <2>1, SumAdd
  <1>13. MovedFor(rows, s) = SumFunctionOnSet(f, S) /\ MovedFor(more, s) = SumFunctionOnSet(g, T)
    BY DEF MovedFor, f, g, S, T, more
  <1>14. CASE m.source = s
    <2>1. T = S \cup {last}
      BY <1>7, <1>14 DEF last
    <2> QED BY <1>5, <1>8, <1>10, <1>11, <1>12, <1>13, <1>14, <2>1 DEF more
  <1>15. CASE m.source # s
    <2>1. T = S
      BY <1>7, <1>15
    <2> QED BY <1>10, <1>11, <1>13, <1>15, <2>1 DEF more
  <1> QED BY <1>14, <1>15

\* What a sale holds out of stock is what its rows moved, the other way.
LEMMA HeldOutIsMoved ==
    ASSUME InventoryTypeOK, NEW s, NEW p \in Products
    PROVE  HeldOut(s, p) = -MovedFor(kardex[p], s)
  BY DEF HeldOut, Moved, MovedFor

\* The units a sale should hold out of stock until it is cancelled or returned.
Due(s, p) == IF s \in Sold /\ p \in Stocked(s) THEN sale[s].items[p] ELSE 0

SalesHoldTheirUnits ==
    \A s \in Cashiers, p \in Products :
        sale[s].status \in {"none", "COMPLETED"} => HeldOut(s, p) = Due(s, p)

\* A step that appends nothing to a kardex, or a row of another document.
LEMMA HeldOutKept ==
    ASSUME InventoryTypeOK, InventoryTypeOK', NEW s \in Cashiers, NEW p \in Products,
           \/ kardex'[p] = kardex[p]
           \/ \E m \in Movement : kardex'[p] = Append(kardex[p], m) /\ m.source # s
    PROVE  HeldOut(s, p)' = HeldOut(s, p)
  <1>1. kardex[p] \in Seq(Movement)
    BY DEF InventoryTypeOK
  <1>2. HeldOut(s, p) = -MovedFor(kardex[p], s)
    BY HeldOutIsMoved
  <1>3. HeldOut(s, p)' = -MovedFor(kardex'[p], s)
    BY DEF HeldOut, Moved, MovedFor
  <1>4. MovedFor(kardex'[p], s) = MovedFor(kardex[p], s)
    <2>1. CASE kardex'[p] = kardex[p]
      BY <2>1
    <2>2. ASSUME NEW m \in Movement, kardex'[p] = Append(kardex[p], m), m.source # s
          PROVE  MovedFor(kardex'[p], s) = MovedFor(kardex[p], s)
      <3>1. /\ MovedFor(kardex[p], s) \in Int
            /\ MovedFor(Append(kardex[p], m), s) = MovedFor(kardex[p], s) + (IF m.source = s THEN m.quantity ELSE 0)
        BY <1>1, MovedForAppend
      <3> QED BY <2>2, <3>1
    <2> QED BY <2>1, <2>2
  <1> QED BY <1>2, <1>3, <1>4

\* A step that appends a row of the document.
LEMMA HeldOutMoves ==
    ASSUME InventoryTypeOK, NEW s \in Cashiers, NEW p \in Products, NEW m \in Movement,
           kardex'[p] = Append(kardex[p], m), m.source = s
    PROVE  HeldOut(s, p)' = HeldOut(s, p) - m.quantity
  <1>1. kardex[p] \in Seq(Movement) /\ m.quantity \in Int
    BY DEF InventoryTypeOK, Movement
  <1>2. HeldOut(s, p) = -MovedFor(kardex[p], s)
    BY HeldOutIsMoved
  <1>3. HeldOut(s, p)' = -MovedFor(kardex'[p], s)
    BY DEF HeldOut, Moved, MovedFor
  <1>4. /\ MovedFor(kardex[p], s) \in Int
        /\ MovedFor(Append(kardex[p], m), s) = MovedFor(kardex[p], s) + m.quantity
    BY <1>1, MovedForAppend
  <1> QED BY <1>1, <1>2, <1>3, <1>4

\* What the sales hold and the stock are known.
BookInv == CoreInv /\ StockInv /\ SalesHoldTheirUnits

\* A sale committed holds the units of its lines that are stocked.
LEMMA CommitSaleHolds ==
    ASSUME BookInv, SalesTypeInv', NEW c \in Cashiers, CommitSale(c)
    PROVE  /\ c \notin Sold
           /\ \A s \in Cashiers, p \in Products :
                HeldOut(s, p)' = IF s = c /\ p \in Stocked(c) THEN checkout[c].basket[p]
                                 ELSE HeldOut(s, p)
  <1>0. InventoryTypeOK /\ InventoryTypeOK' /\ SalesTypeOK /\ SalesHoldTheirUnits /\ SalesAreMadeOnce
    BY DEF BookInv, CoreInv, SalesTypeInv, SalesTypeOK, NumbersInv
  <1>1. c \notin Sold
    BY <1>0 DEF CommitSale, Priced, SalesAreMadeOnce, Sold
  <1> SUFFICES ASSUME NEW s \in Cashiers, NEW p \in Products
               PROVE  HeldOut(s, p)' = IF s = c /\ p \in Stocked(c) THEN checkout[c].basket[p]
                                       ELSE HeldOut(s, p)
    BY <1>1
  <1>2. kardex'[p] = IF p \in Stocked(c) THEN Append(kardex[p], SaleMovement(c, p)) ELSE kardex[p]
    BY DEF CommitSale, Record, MovedBy
  <1>3. CASE p \notin Stocked(c)
    <2>1. kardex'[p] = kardex[p]
      BY <1>2, <1>3
    <2>2. HeldOut(s, p)' = HeldOut(s, p)
      BY <1>0, <2>1, HeldOutKept
    <2> QED BY <1>3, <2>2
  <1>4. CASE p \in Stocked(c)
    <2> DEFINE left == product[p].stock - checkout[c].basket[p]
    <2>1. product[p].stock \in Int /\ checkout[c].basket[p] \in Int
      BY <1>0 DEF SalesTypeOK, InventoryTypeOK, ProductRow, Checkout, Quantities
    <2>2. left \in Int /\ left + checkout[c].basket[p] \in Int
            /\ left - (left + checkout[c].basket[p]) = -checkout[c].basket[p]
      BY <2>1
    <2>3. "SALE" \in MovementType /\ c \in Documents \cup {None}
      BY SalesAssumption DEF MovementType
    <2>4. PICK m : m = SaleMovement(c, p)
      OBVIOUS
    <2>5. m \in Movement /\ m.source = c /\ m.quantity = -checkout[c].basket[p]
      <3> HIDE DEF left
      <3>1. m = MovementRow("SALE", left + checkout[c].basket[p], left, c)
        BY <2>4 DEF SaleMovement, left
      <3> QED BY <2>2, <2>3, <3>1, MovementRowType DEF MovementRow
    <2>6. kardex'[p] = Append(kardex[p], m)
      BY <1>2, <1>4, <2>4
    <2>7. CASE s # c
      <3>1. m.source # s
        BY <2>5, <2>7
      <3>2. HeldOut(s, p)' = HeldOut(s, p)
        BY <1>0, <2>5, <2>6, <3>1, HeldOutKept
      <3> QED BY <2>7, <3>2
    <2>8. CASE s = c
      <3>1. HeldOut(s, p) = 0
        BY <1>0, <1>1, <2>8 DEF SalesHoldTheirUnits, Due, Sold
      <3>2. HeldOut(s, p)' = HeldOut(s, p) - m.quantity
        BY <1>0, <2>5, <2>6, <2>8, HeldOutMoves
      <3>3. HeldOut(s, p)' = checkout[c].basket[p]
        BY <2>1, <2>5, <3>1, <3>2
      <3> QED BY <1>4, <2>8, <3>3
    <2> QED BY <2>7, <2>8
  <1> QED BY <1>3, <1>4

\* A void that is not overtaken cancels a completed sale: the sale holds nothing
\* any more, and its lines are back in stock.
LEMMA CommitVoidHolds ==
    ASSUME BookInv, SalesTypeInv', NEW v \in Voiders, CommitVoid(v), ~Overtaken(v)
    PROVE  /\ void[v].sale \in Cashiers /\ sale[void[v].sale].status = "COMPLETED"
           /\ \A s \in Cashiers, p \in Products :
                HeldOut(s, p)' = IF s = void[v].sale THEN 0 ELSE HeldOut(s, p)
           /\ \A p \in Products : product'[p].stock = product[p].stock + HeldOut(void[v].sale, p)
  <1>0. InventoryTypeOK /\ InventoryTypeOK' /\ SalesTypeOK /\ SalesHoldTheirUnits /\ SalesAreMadeOnce
    BY DEF BookInv, CoreInv, SalesTypeInv, SalesTypeOK, NumbersInv
  <1>1. /\ void[v].pc = "restocking" /\ void[v].todo = {} /\ v \in VoidsAtWork
        /\ void[v].sale \in Cashiers
    BY DEF CommitVoid, BookInv, CoreInv, SalesTypeInv, VoidsNameSales, VoidsAtWork
  <1>2. PICK t \in Cashiers : t = void[v].sale
    BY <1>1
  <1>3. LockedBy(v) = Stocked(t)
    BY <1>1, <1>2 DEF BookInv, CoreInv, WholeInv, VoidsCollectTheirSales, CollectsItsSale, Collected
  <1>4. sale[t].status = "COMPLETED" /\ t \in Sold
    BY <1>2 DEF Overtaken, Voidable, Sold
  <1>5. ASSUME NEW p \in Products
        PROVE  /\ kardex'[p] = IF p \in Stocked(t) THEN Append(kardex[p], ReturnMovement(v, p)) ELSE kardex[p]
               /\ product'[p] = IF p \in Stocked(t)
                     THEN [product[p] EXCEPT !.stock = void[v].restock[p]] ELSE product[p]
               /\ HeldOut(t, p) = IF p \in Stocked(t) THEN sale[t].items[p] ELSE 0
               /\ product[p] \in ProductRow /\ product[p].stock \in Int /\ sale[t].items[p] \in Int
    <2>1. /\ kardex'[p] = IF p \in Stocked(t) THEN Append(kardex[p], ReturnMovement(v, p)) ELSE kardex[p]
          /\ product'[p] = IF p \in Stocked(t)
                THEN [product[p] EXCEPT !.stock = void[v].restock[p]] ELSE product[p]
      BY <1>3 DEF CommitVoid, Record, SetStock, Restocked
    <2>2. HeldOut(t, p) = IF p \in Stocked(t) THEN sale[t].items[p] ELSE 0
      BY <1>0, <1>4 DEF SalesHoldTheirUnits, Due
    <2>3. product[p] \in ProductRow /\ product[p].stock \in Int /\ sale[t].items[p] \in Int
      BY <1>0 DEF SalesTypeOK, InventoryTypeOK, ProductRow, SaleRow, Quantities
    <2> QED BY <2>1, <2>2, <2>3
  <1>6. ASSUME NEW p \in Stocked(t)
        PROVE  void[v].restock[p] = product[p].stock + sale[t].items[p]
    <2>1. p \in LockedBy(v)
      BY <1>3
    <2> QED BY <1>2, <2>1 DEF Overtaken
  <1>7. ASSUME NEW p \in Products PROVE product'[p].stock = product[p].stock + HeldOut(t, p)
    <2>1. CASE p \in Stocked(t)
      <3>1. product'[p].stock = void[v].restock[p]
        BY <1>5, <2>1 DEF ProductRow
      <3>2. HeldOut(t, p) = sale[t].items[p]
        BY <1>5, <2>1
      <3>3. void[v].restock[p] = product[p].stock + sale[t].items[p]
        BY <1>6, <2>1
      <3> QED BY <3>1, <3>2, <3>3
    <2>2. CASE p \notin Stocked(t)
      <3>1. product'[p] = product[p] /\ HeldOut(t, p) = 0 /\ product[p].stock \in Int
        BY <1>5, <2>2
      <3> QED BY <3>1
    <2> QED BY <2>1, <2>2
  <1>8. ASSUME NEW s \in Cashiers, NEW p \in Products
        PROVE  HeldOut(s, p)' = IF s = t THEN 0 ELSE HeldOut(s, p)
    <2>1. CASE p \notin Stocked(t)
      <3>1. kardex'[p] = kardex[p]
        BY <1>5, <2>1
      <3>2. HeldOut(s, p)' = HeldOut(s, p)
        BY <1>0, <3>1, HeldOutKept
      <3> QED BY <1>5, <2>1, <3>2
    <2>2. CASE p \in Stocked(t)
      <3>0. /\ void[v].restock[p] = product[p].stock + sale[t].items[p]
            /\ product[p].stock \in Int /\ sale[t].items[p] \in Int
            /\ HeldOut(t, p) = sale[t].items[p]
            /\ kardex'[p] = Append(kardex[p], ReturnMovement(v, p))
        <4>1. void[v].restock[p] = product[p].stock + sale[t].items[p]
          BY <1>6, <2>2
        <4> QED BY <1>5, <2>2, <4>1
      <3>1. void[v].restock[p] \in Int /\ "RETURN" \in MovementType /\ t \in Documents \cup {None}
        BY <3>0, SalesAssumption DEF MovementType
      <3>2. PICK m : m = ReturnMovement(v, p)
        OBVIOUS
      <3>3. m = MovementRow("RETURN", product[p].stock, void[v].restock[p], t)
        <4>1. void[v].restock[p] - sale[t].items[p] = product[p].stock
          BY <3>0
        <4> QED BY <1>2, <3>2, <4>1 DEF ReturnMovement
      <3>4. m \in Movement
        BY <3>0, <3>1, <3>3, MovementRowType
      <3>5. m.source = t /\ m.quantity = void[v].restock[p] - product[p].stock
        BY <3>3 DEF MovementRow
      <3>6. m.quantity = sale[t].items[p]
        BY <3>0, <3>5
      <3>7. kardex'[p] = Append(kardex[p], m)
        BY <3>0, <3>2
      <3>8. CASE s # t
        <4>1. HeldOut(s, p)' = HeldOut(s, p)
          BY <1>0, <3>4, <3>5, <3>7, <3>8, HeldOutKept
        <4> QED BY <3>8, <4>1
      <3>9. CASE s = t
        <4>1. HeldOut(t, p)' = HeldOut(t, p) - m.quantity
          BY <1>0, <3>4, <3>5, <3>7, HeldOutMoves
        <4>2. HeldOut(t, p)' = 0
          BY <3>0, <3>6, <4>1
        <4> QED BY <3>9, <4>2
      <3> QED BY <3>8, <3>9
    <2> QED BY <2>1, <2>2
  <1> QED BY <1>2, <1>4, <1>7, <1>8

\* The steps that move no stock and no sale.
QuietStep ==
    \/ \E c \in Cashiers :
          \/ OpenCheckout(c) \/ RefuseCommit(c) \/ FailCheckout(c)
          \/ \E p \in Products : PriceLine(c, p) \/ RefuseLine(c, p)
    \/ \E v \in Voiders :
          \/ \E s \in Cashiers : OpenVoid(v, s) \/ RefuseVoid(v, s)
          \/ \E p \in Products : ReadItem(v, p)
          \/ WriteItem(v) \/ AbortVoid(v)
    \/ UNCHANGED SalesVars

\* They leave the products, the kardex and the sales alone.
LEMMA QuietStepIsQuiet ==
    ASSUME QuietStep
    PROVE  UNCHANGED <<product, kardex, sale>>
  BY DEF QuietStep, OpenCheckout, RefuseCommit, FailCheckout, PriceLine, RefuseLine, OpenVoid, RefuseVoid,
         ReadItem, WriteItem, AbortVoid, SalesVars, salesVars, inventoryVars

\* Every step is one of those, or the commit of a sale, of a void or of a mark.
LEMMA SalesSteps ==
    ASSUME [SalesNext]_SalesVars
    PROVE  \/ QuietStep
           \/ \E c \in Cashiers : CommitSale(c)
           \/ \E v \in Voiders : CommitVoid(v) \/ MarkPartial(v)
  BY DEF SalesNext, CheckoutStep, VoidStep, QuietStep

\* With the kardex the units the sales hold stay.
LEMMA HeldOutStays == ASSUME UNCHANGED kardex PROVE \A s, p : HeldOut(s, p)' = HeldOut(s, p)
  BY DEF HeldOut, Moved

\* What a sale holds stays what it should.
LEMMA SalesStepHolds ==
    ASSUME BookInv, SalesTypeInv', [SalesNext]_SalesVars
    PROVE  SalesHoldTheirUnits'
  <1>0. SalesTypeOK /\ SalesTypeInv /\ SalesAreMadeOnce /\ SalesHoldTheirUnits
    BY DEF BookInv, CoreInv, SalesTypeInv, NumbersInv
  <1> SUFFICES ASSUME NEW s \in Cashiers, NEW p \in Products,
                      sale'[s].status \in {"none", "COMPLETED"}
               PROVE  HeldOut(s, p)' = Due(s, p)'
    BY DEF SalesHoldTheirUnits
  <1>1. sale[s].status \in {"none", "COMPLETED"} => HeldOut(s, p) = Due(s, p)
    BY <1>0 DEF SalesHoldTheirUnits
  <1>2. s \in Sold => s \in Sold' /\ sale'[s].items = sale[s].items /\ Stocked(s)' = Stocked(s)
    BY <1>0, SoldKept
  <1>3. ASSUME HeldOut(s, p)' = HeldOut(s, p), sale'[s].status = sale[s].status
        PROVE  HeldOut(s, p)' = Due(s, p)'
    <2>1. s \in Sold' <=> s \in Sold
      BY <1>3 DEF Sold
    <2> QED BY <1>1, <1>2, <1>3, <2>1 DEF Due
  <1>4. CASE QuietStep
    BY <1>3, <1>4, QuietStepIsQuiet, HeldOutStays
  <1>5. ASSUME NEW c \in Cashiers, CommitSale(c)
        PROVE  HeldOut(s, p)' = Due(s, p)'
    <2>1. /\ c \notin Sold
          /\ HeldOut(s, p)' = IF s = c /\ p \in Stocked(c) THEN checkout[c].basket[p] ELSE HeldOut(s, p)
      BY <1>5, CommitSaleHolds
    <2>2. CASE s # c
      <3>1. sale'[s].status = sale[s].status
        BY <1>0, <1>5, <2>2 DEF CommitSale, SalesTypeOK
      <3> QED BY <1>3, <2>1, <2>2, <3>1
    <2>3. CASE s = c
      <3>1. sale'[c].status = "COMPLETED" /\ sale'[c].items = checkout[c].basket
        BY <1>0, <1>5 DEF CommitSale, SalesTypeOK
      <3>2. checkout'[c].basket = checkout[c].basket /\ checkout'[c].read = checkout[c].read
        BY <1>0, <1>5 DEF CommitSale, SalesTypeOK, Checkout
      <3>3. Stocked(c)' = Stocked(c) /\ c \in Sold'
        BY <3>1, <3>2 DEF Stocked, Lines, Sold
      <3>4. HeldOut(s, p) = 0
        BY <1>1, <2>1, <2>3 DEF Due, Sold
      <3> QED BY <2>1, <2>3, <3>1, <3>3, <3>4 DEF Due
    <2> QED BY <2>2, <2>3
  <1>6. ASSUME NEW v \in Voiders, CommitVoid(v)
        PROVE  HeldOut(s, p)' = Due(s, p)'
    <2> DEFINE t == void[v].sale
    <2>1. t \in Cashiers
      BY <1>0, <1>6 DEF CommitVoid, SalesTypeInv, VoidsNameSales
    <2>2. s # t
      BY <1>0, <1>6, <2>1 DEF CommitVoid, SalesTypeOK, SaleRow
    <2>3. sale'[s].status = sale[s].status
      BY <1>0, <1>6, <2>2 DEF CommitVoid, SalesTypeOK
    <2>4. HeldOut(s, p)' = HeldOut(s, p)
      <3>1. PICK m : m = ReturnMovement(v, p)
        OBVIOUS
      <3>2. kardex'[p] = IF p \in LockedBy(v) THEN Append(kardex[p], m) ELSE kardex[p]
        BY <1>6, <3>1 DEF CommitVoid, Record
      <3>3. m.source # s
        BY <2>2, <3>1 DEF ReturnMovement, MovementRow
      <3>4. void[v].restock[p] \in Int
        BY <1>0 DEF SalesTypeOK, Void
      <3>5. m \in Movement
        BY <1>0, <2>1, <3>1, <3>4, ReturnMovementType
      <3>6. InventoryTypeOK /\ InventoryTypeOK'
        BY DEF BookInv, CoreInv, SalesTypeInv, SalesTypeOK
      <3> QED BY <3>2, <3>3, <3>5, <3>6, HeldOutKept
    <2> QED BY <1>3, <2>3, <2>4
  <1>7. ASSUME NEW v \in Voiders, MarkPartial(v)
        PROVE  HeldOut(s, p)' = Due(s, p)'
    <2>1. void[v].sale \in Cashiers /\ HeldOut(s, p)' = HeldOut(s, p)
      BY <1>0, <1>7, HeldOutStays DEF MarkPartial, SalesTypeInv, VoidsNameSales, inventoryVars
    <2>2. s # void[v].sale
      BY <1>0, <1>7, <2>1 DEF MarkPartial, SalesTypeOK, SaleRow
    <2>3. sale'[s].status = sale[s].status
      BY <1>0, <1>7, <2>2 DEF MarkPartial, SalesTypeOK
    <2> QED BY <1>3, <2>1, <2>3
  <1> QED BY <1>4, <1>5, <1>6, <1>7, SalesSteps

\* At first no sale is made, and no row of the kardex names one.
LEMMA BookInitInv == SalesAloneInit => BookInv
  <1> SUFFICES ASSUME SalesAloneInit PROVE BookInv
    OBVIOUS
  <1>1. CoreInv /\ StockInv
    BY CoreInit, SalesInitStock DEF SalesAloneInit
  <1>2. Sold = {}
    BY DEF SalesAloneInit, SalesInit, Sold
  <1>3. SalesHoldTheirUnits
    <2> SUFFICES ASSUME NEW s \in Cashiers, NEW p \in Products PROVE HeldOut(s, p) = 0
      BY <1>2 DEF SalesHoldTheirUnits, Due
    <2>1. s # None
      BY SalesAssumption, InventoryAssumption
    <2>2. {i \in DOMAIN kardex[p] : kardex[p][i].source = s} = {}
      <3>1. \/ kardex[p] = <<>>
            \/ kardex[p] = <<MovementRow("PURCHASE", 0, product[p].stock, None)>>
        BY DEF SalesAloneInit, InventoryInit
      <3> QED BY <2>1, <3>1 DEF MovementRow
    <2> QED BY <2>2, SumEmpty DEF HeldOut
  <1> QED BY <1>1, <1>3 DEF BookInv

\* Every step keeps what the sales hold, and what that rests on.
LEMMA BookNextInv == ASSUME BookInv, [SalesNext]_SalesVars PROVE BookInv'
  <1>1. CoreInv' /\ StockInv'
    BY CoreNext, SalesStepStock DEF BookInv, CoreInv
  <1>2. SalesHoldTheirUnits'
    BY <1>1, SalesStepHolds DEF CoreInv
  <1> QED BY <1>1, <1>2 DEF BookInv

\* Every step of the service is the last one of an update that was overtaken, a
\* step of the sale book, or none.
LEMMA SalesStepOfBook ==
    ASSUME BookInv, SalesTypeInv', [SalesNext]_SalesVars
    PROVE  [(\E v \in Voiders : StaleCommit(v)) \/ SalesBook!Next]_(SalesBook!bookVars)
  <1> DEFINE status == [s \in Cashiers |-> sale[s].status]
             taken == [s \in Cashiers |-> [p \in Products |-> HeldOut(s, p)]]
             onHand == [p \in Products |-> product[p].stock]
  <1>0. SalesTypeInv /\ SalesTypeOK /\ InventoryTypeOK /\ SalesHoldTheirUnits
    BY DEF BookInv, CoreInv, SalesTypeInv, SalesTypeOK
  <1>1. CASE QuietStep
    <2>1. UNCHANGED <<product, kardex, sale>>
      BY <1>1, QuietStepIsQuiet
    <2>2. taken' = taken
      BY <2>1, HeldOutStays
    <2>3. status' = status /\ onHand' = onHand
      BY <2>1
    <2> QED BY <2>2, <2>3 DEF SalesBook!bookVars
  <1>2. ASSUME NEW c \in Cashiers, CommitSale(c)
        PROVE  SalesBook!Sell(c)
    <2> DEFINE units == [p \in Products |-> IF p \in Stocked(c) THEN checkout[c].basket[p] ELSE 0]
    <2>1. /\ c \notin Sold
          /\ \A s \in Cashiers, p \in Products :
                HeldOut(s, p)' = IF s = c /\ p \in Stocked(c) THEN checkout[c].basket[p] ELSE HeldOut(s, p)
      BY <1>2, CommitSaleHolds
    <2>2. status[c] = "none"
      BY <1>0, <2>1 DEF Sold
    <2>3. status' = [status EXCEPT ![c] = "COMPLETED"]
      BY <1>0, <1>2 DEF CommitSale, SalesTypeOK
    <2>4. checkout[c].basket \in Quantities
      BY <1>0 DEF SalesTypeOK, Checkout
    <2>5. units \in [Products -> 0..MaxQty]
      <3>1. 0 \in 0..MaxQty
        BY SalesAssumption
      <3> QED BY <2>4, <3>1 DEF Quantities
    <2>6. ASSUME NEW p \in Products
          PROVE  /\ units[p] <= onHand[p]
                 /\ product'[p].stock = onHand[p] - units[p]
      <3>1. product[p] \in ProductRow /\ product[p].stock \in Int /\ product[p].stock >= 0
        BY <1>0 DEF InventoryTypeOK, ProductRow, BookInv, StockInv, NeverOversold
      <3>2. CASE p \in Stocked(c)
        <4>1. product[p].stock >= checkout[c].basket[p]
          BY <1>2, <3>2 DEF CommitSale, MovedBy, CanDecrement
        <4>2. product'[p] = [product[p] EXCEPT !.stock = product[p].stock - checkout[c].basket[p]]
          BY <1>2, <3>2 DEF CommitSale, SetStock, MovedBy
        <4>3. product'[p].stock = product[p].stock - checkout[c].basket[p]
          BY <3>1, <4>2 DEF ProductRow
        <4> QED BY <3>2, <4>1, <4>3
      <3>3. CASE p \notin Stocked(c)
        <4>1. product'[p] = product[p]
          BY <1>2, <3>3 DEF CommitSale, SetStock, MovedBy
        <4> QED BY <3>1, <3>3, <4>1
      <3> QED BY <3>2, <3>3
    <2>7. onHand' = [p \in Products |-> onHand[p] - units[p]]
      BY <2>6
    <2>8. taken' = [taken EXCEPT ![c] = units]
      <3>1. ASSUME NEW s \in Cashiers
            PROVE  [p \in Products |-> HeldOut(s, p)'] = IF s = c THEN units ELSE [p \in Products |-> HeldOut(s, p)]
        <4>1. CASE s = c
          <5>1. \A p \in Products : HeldOut(c, p) = 0
            BY <1>0, <2>1 DEF SalesHoldTheirUnits, Due, Sold
          <5>2. \A p \in Products : HeldOut(c, p)' = units[p]
            BY <2>1, <5>1
          <5> QED BY <4>1, <5>2
        <4>2. CASE s # c
          BY <2>1, <4>2
        <4> QED BY <4>1, <4>2
      <3>2. taken' = [s \in Cashiers |-> [p \in Products |-> HeldOut(s, p)']]
        OBVIOUS
      <3> HIDE DEF units
      <3> QED BY <3>1, <3>2
    <2>9. /\ status[c] = "none"
          /\ status' = [status EXCEPT ![c] = "COMPLETED"]
          /\ \E u \in [Products -> 0..MaxQty] :
                /\ \A p \in Products : u[p] <= onHand[p]
                /\ taken' = [taken EXCEPT ![c] = u]
                /\ onHand' = [p \in Products |-> onHand[p] - u[p]]
      <3> HIDE DEF units, status, taken, onHand
      <3> QED BY <2>2, <2>3, <2>5, <2>6, <2>7, <2>8
    <2> QED BY <2>9 DEF SalesBook!Sell
  <1>3. ASSUME NEW v \in Voiders, CommitVoid(v), ~Overtaken(v)
        PROVE  SalesBook!Next
    <2>1. PICK t \in Cashiers : t = void[v].sale
      BY <1>3, CommitVoidHolds
    <2>2. /\ sale[t].status = "COMPLETED"
          /\ \A s \in Cashiers, p \in Products : HeldOut(s, p)' = IF s = t THEN 0 ELSE HeldOut(s, p)
          /\ \A p \in Products : product'[p].stock = product[p].stock + HeldOut(t, p)
      BY <1>3, <2>1, CommitVoidHolds
    <2>3. status' = [status EXCEPT ![t] = "CANCELLED"]
      BY <1>0, <1>3, <2>1 DEF CommitVoid, SalesTypeOK, SaleRow
    <2>4. onHand' = [p \in Products |-> onHand[p] + taken[t][p]]
      BY <2>2
    <2>5. taken' = [taken EXCEPT ![t] = SalesBook!Nothing]
      <3>1. \A s \in Cashiers : [p \in Products |-> HeldOut(s, p)'] =
               IF s = t THEN [p \in Products |-> 0] ELSE [p \in Products |-> HeldOut(s, p)]
        BY <2>2
      <3>2. taken' = [s \in Cashiers |-> [p \in Products |-> HeldOut(s, p)']]
        OBVIOUS
      <3> QED BY <3>1, <3>2 DEF SalesBook!Nothing
    <2>6. SalesBook!Cancel(t)
      BY <2>2, <2>3, <2>4, <2>5 DEF SalesBook!Cancel
    <2> QED BY <2>6 DEF SalesBook!Next
  <1>4. ASSUME NEW v \in Voiders, MarkPartial(v), ~Overtaken(v)
        PROVE  SalesBook!Next
    <2>1. PICK t \in Cashiers : t = void[v].sale
      BY <1>0, <1>4 DEF MarkPartial, SalesTypeInv, VoidsNameSales
    <2>2. sale[t].status = "COMPLETED" /\ UNCHANGED <<product, kardex>>
      BY <1>4, <2>1 DEF MarkPartial, Overtaken, Voidable, inventoryVars
    <2>3. status' = [status EXCEPT ![t] = "RETURNED_PARTIAL"]
      BY <1>0, <1>4, <2>1 DEF MarkPartial, SalesTypeOK, SaleRow
    <2>4. taken' = taken /\ onHand' = onHand
      BY <2>2, HeldOutStays
    <2>5. SalesBook!ReturnPartially(t)
      BY <2>2, <2>3, <2>4 DEF SalesBook!ReturnPartially
    <2> QED BY <2>5 DEF SalesBook!Next
  <1>5. ASSUME NEW c \in Cashiers, CommitSale(c) PROVE SalesBook!Next
    BY <1>2, <1>5 DEF SalesBook!Next
  <1>6. ASSUME NEW v \in Voiders, CommitVoid(v) \/ MarkPartial(v), Overtaken(v)
        PROVE  StaleCommit(v)
    <2>1. void[v].pc \in {"restocking", "marking"} /\ void' = [void EXCEPT ![v].pc = "done"]
      BY <1>6 DEF CommitVoid, MarkPartial
    <2>2. void'[v].pc = "done"
      BY <1>0, <2>1, VoidMoves
    <2> QED BY <1>6, <2>1, <2>2 DEF StaleCommit
  <1> HIDE DEF status, taken, onHand
  <1> DEFINE Stale == \E v \in Voiders : StaleCommit(v)
  <1>7. QuietStep => [Stale \/ SalesBook!Next]_(SalesBook!bookVars)
    BY <1>1
  <1>8. ASSUME NEW v \in Voiders, CommitVoid(v) \/ MarkPartial(v)
        PROVE  Stale \/ SalesBook!Next
    BY <1>3, <1>4, <1>6, <1>8
  <1> HIDE DEF Stale
  <1>9. Stale \/ SalesBook!Next => [Stale \/ SalesBook!Next]_(SalesBook!bookVars)
    OBVIOUS
  <1>10. [Stale \/ SalesBook!Next]_(SalesBook!bookVars)
    BY <1>5, <1>7, <1>8, <1>9, SalesSteps
  <1> QED BY <1>10 DEF Stale

\* Any number of checkouts and voids, however they cross, keep the sale book: a sale
\* takes all its units out of stock in one step, and a void puts back those and no
\* others in one step, unless it was overtaken since it read its sale and its lines.
THEOREM SalesAreTheBook == SalesSpec => ImplementsSaleBook
  <1>1. SalesAloneInit => BookInv /\ SalesBook!Init
    <2> SUFFICES ASSUME SalesAloneInit PROVE SalesBook!Init
      BY BookInitInv
    <2>1. BookInv /\ InventoryInit /\ SalesInit
      BY BookInitInv DEF SalesAloneInit
    <2>2. \A s \in Cashiers : sale[s].status = "none"
      BY <2>1 DEF SalesInit
    <2>3. \A s \in Cashiers, p \in Products : HeldOut(s, p) = 0
      BY <2>1, <2>2 DEF BookInv, SalesHoldTheirUnits, Due, Sold
    <2>4. \A p \in Products : product[p].stock \in Nat
      BY <2>1, InventoryInitType
    <2> QED BY <2>2, <2>3, <2>4 DEF SalesBook!Init, SalesBook!Nothing
  <1>2. BookInv /\ [SalesNext]_SalesVars =>
           BookInv' /\ [(\E v \in Voiders : StaleCommit(v)) \/ SalesBook!Next]_(SalesBook!bookVars)
    <2> SUFFICES ASSUME BookInv, [SalesNext]_SalesVars
                 PROVE  BookInv' /\ [(\E v \in Voiders : StaleCommit(v)) \/ SalesBook!Next]_(SalesBook!bookVars)
      OBVIOUS
    <2>1. BookInv'
      BY BookNextInv
    <2>2. SalesTypeInv'
      BY <2>1 DEF BookInv, CoreInv
    <2> QED BY <2>1, <2>2, SalesStepOfBook
  <1> QED BY <1>1, <1>2, PTL DEF SalesSpec, ImplementsSaleBook
=============================================================================
