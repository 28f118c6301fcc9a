------------------------------ MODULE Inventory ------------------------------
(***************************************************************************)
(* The three tables every stock-moving service of the backend shares: the  *)
(* Product rows, the InventoryMovement rows (the kardex) and the row locks *)
(* PostgreSQL holds for transactions that are still open.  The stock rules *)
(* of products/product-type.logic.ts are here too, since every service     *)
(* must decide with them.                                                  *)
(*                                                                         *)
(* A request is one HTTP call.  Its multi-statement transactions run at    *)
(* READ COMMITTED unless the code asks for SERIALIZABLE: a statement reads *)
(* the latest committed row, a write takes the row's lock and keeps it to  *)
(* the end of the transaction, and nothing is visible before the commit.   *)
(***************************************************************************)
EXTENDS Integers, Sequences, FiniteSets, Functions

CONSTANTS
    Products,       \* product ids
    Requests,       \* every HTTP request of the behaviour
    Documents,      \* sales and purchase orders a movement may come from
    None,           \* no request holds the lock, no document caused the movement
    OpeningKinds,   \* what a product may be when the behaviour starts
    OpeningStock    \* units a tracked product starts with

ASSUME InventoryAssumption ==
    /\ None \notin Requests \cup Documents
    /\ OpeningKinds \subseteq {"tracked", "untracked", "service", "absent"}
    /\ OpeningStock \in Nat

VARIABLES
    product,        \* Product rows by id
    kardex,         \* committed InventoryMovement rows of each product, in order
    lock            \* the open transaction that holds each Product row

inventoryVars == <<product, kardex, lock>>

ProductType == {"PRODUCT", "SERVICE"}

ProductRow ==
    [state: {"absent", "live", "deleted"}, active: BOOLEAN, type: ProductType,
     tracksStock: BOOLEAN, stock: Int, version: Nat]

MovementType == {"PURCHASE", "SALE", "ADJUSTMENT_IN", "ADJUSTMENT_OUT", "RETURN"}

Movement ==
    [type: MovementType, quantity: Int, previousStock: Int, newStock: Int,
     source: Documents \cup {None}]

InventoryTypeOK ==
    /\ product \in [Products -> ProductRow]
    /\ kardex \in [Products -> Seq(Movement)]
    /\ lock \in [Products -> Requests \cup {None}]

-----------------------------------------------------------------------------
(* products/product-type.logic.ts *)

\* tracksStock: an item is stock-controlled when it declares it and is merchandise.
TracksStock(item) == item.tracksStock /\ item.type # "SERVICE"

\* normalizeStock: whatever is not tracked stores zero.
NormalizeStock(item, stock) == IF TracksStock(item) THEN stock ELSE 0

\* resolveInitialStockMovement: is an opening movement written?
HasInitialMovement(item, stock) == TracksStock(item) /\ stock # 0

\* resolveStockDeltaMovement: the adjustment a manual edit is recorded as.
HasDeltaMovement(item, previous, next) == TracksStock(item) /\ previous # next

DeltaMovementType(previous, next) ==
    IF next > previous THEN "ADJUSTMENT_IN" ELSE "ADJUSTMENT_OUT"

-----------------------------------------------------------------------------
(* Rows *)

\* One kardex row; src is the sale or order its reason names, None for the others.
MovementRow(type, previous, next, src) ==
    [type |-> type, quantity |-> next - previous, previousStock |-> previous,
     newStock |-> next, source |-> src]

\* The kardex with one more row for each product p of ps.
Record(ps, Row(_)) ==
    [p \in Products |-> IF p \in ps THEN Append(kardex[p], Row(p)) ELSE kardex[p]]

\* The rows with the stock of each product p of ps replaced.
SetStock(ps, Stock(_)) ==
    [p \in Products |->
        IF p \in ps THEN [product[p] EXCEPT !.stock = Stock(p)] ELSE product[p]]

Exists(p) == product[p].state = "live"

Active(p) == Exists(p) /\ product[p].active

Unlocked(p) == lock[p] = None

LockedBy(r) == {p \in Products : lock[p] = r}

Released(r) == [p \in Products |-> IF lock[p] = r THEN None ELSE lock[p]]

\* r is on a cycle of open transactions that each wait for a row the next one holds.
OnCycle(r, transactions, WaitsFor(_, _)) ==
    \E cycle \in SUBSET transactions :
        /\ r \in cycle
        /\ \A x \in cycle : \E y \in cycle : WaitsFor(x, y)
        /\ \A y \in cycle : \E x \in cycle : WaitsFor(x, y)

\* Indices of the movements of a type that document s left on p.
MovementsOf(p, type, s) ==
    {i \in DOMAIN kardex[p] : kardex[p][i].type = type /\ kardex[p][i].source = s}

-----------------------------------------------------------------------------
OpeningRow(kind) ==
    LET item == [type |-> IF kind = "service" THEN "SERVICE" ELSE "PRODUCT",
                 tracksStock |-> kind = "tracked"]
    IN  [state |-> IF kind = "absent" THEN "absent" ELSE "live",
         active |-> kind # "absent", type |-> item.type, tracksStock |-> item.tracksStock,
         stock |-> NormalizeStock(item, OpeningStock), version |-> 0]

\* The catalogue as ProductsService.create leaves it, opening movements included.
InventoryInit ==
    /\ \E kind \in [Products -> OpeningKinds] :
          product = [p \in Products |-> OpeningRow(kind[p])]
    /\ kardex = [p \in Products |->
          IF HasInitialMovement(product[p], product[p].stock)
          THEN <<MovementRow("PURCHASE", 0, product[p].stock, None)>>
          ELSE <<>>]
    /\ lock = [p \in Products |-> None]

-----------------------------------------------------------------------------
(* What the stock and its kardex owe each other *)

Moved(p) == [i \in DOMAIN kardex[p] |-> kardex[p][i].quantity]

KardexSum(p) == SumFunctionOnSet(Moved(p), DOMAIN kardex[p])

\* The tracked stock of a product never goes below zero.  No CHECK constraint
\* guards the column: the sale's conditional decrement is what keeps it, against
\* writers that store an absolute stock computed from an earlier read.
NeverOversold == \A p \in Products : product[p].stock >= 0

\* The kardex explains the stock: the movements of a product add up to the units
\* on hand.  A sale, a cancellation and an edit write the stock and its movement in
\* two statements, from a stock they read before.
KardexExplainsStock ==
    \A p \in Products : Exists(p) => KardexSum(p) = product[p].stock

\* Every kardex row starts where the previous one of the product ended, and the
\* last one ends at the stored stock: the previousStock and newStock columns a
\* request computes from its own reads tell one consistent history.
KardexChained ==
    \A p \in Products :
        /\ \A i \in 2..Len(kardex[p]) :
              kardex[p][i].previousStock = kardex[p][i - 1].newStock
        /\ kardex[p] # <<>> => kardex[p][Len(kardex[p])].newStock = product[p].stock
=============================================================================
