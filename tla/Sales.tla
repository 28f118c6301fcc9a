-------------------------------- MODULE Sales --------------------------------
(***************************************************************************)
(* SalesService.create and SalesService.update over the shared inventory.  *)
(*                                                                         *)
(* A checkout reads its products outside the transaction, line by line,    *)
(* and then runs one SERIALIZABLE transaction.  That transaction reads     *)
(* only rows it locks itself, so it takes effect in one step, CommitSale,  *)
(* or not at all, FailCheckout: a serialization failure, a P2028 timeout,  *)
(* a lost connection.                                                      *)
(*                                                                         *)
(* A void (PATCH with status CANCELLED or RETURNED_PARTIAL) checks the     *)
(* sale before its transaction; the restock runs at READ COMMITTED, one    *)
(* read and one absolute write per line.                                   *)
(*                                                                         *)
(* Money (prices, taxes, payments) is not part of this module: a request   *)
(* its validation refuses changes nothing, and FailCheckout stands for it. *)
(* Nor are users: a cashier may update only the sales they made, and the   *)
(* requests of this module are the ones that pass that test.               *)
(***************************************************************************)
EXTENDS Inventory

CONSTANTS
    Cashiers,       \* checkout requests; a sale is named by the request that made it
    Voiders,        \* sale update requests
    MaxQty,         \* bound: units of a product in one basket
    MaxInFlight     \* bound: requests of this module served at the same time

ASSUME SalesAssumption ==
    /\ Cashiers \cup Voiders \subseteq Requests
    /\ Cashiers \subseteq Documents
    /\ Cashiers \cap Voiders = {}
    /\ MaxQty \in Nat \ {0}
    /\ MaxInFlight \in Nat \ {0}

VARIABLES
    sale,           \* Sale rows with their SaleItem quantities
    saleSeq,        \* OrganizationSequence.currentNumber of (org, 'SALE', year)
    checkout,       \* local state of the create requests
    void            \* local state of the update requests

salesVars == <<sale, saleSeq, checkout, void>>

Quantities == [Products -> 0..MaxQty]

Empty == [p \in Products |-> 0]

Lines(basket) == {p \in Products : basket[p] > 0}

SaleStatus == {"none", "COMPLETED", "CANCELLED", "RETURNED_PARTIAL"}

SaleRow == [status: SaleStatus, number: Nat, items: Quantities]

Checkout ==
    [pc: {"idle", "pricing", "done", "refused"}, basket: Quantities,
     read: [Products -> {"unread", "tracked", "untracked"}]]

Void ==
    [pc: {"idle", "restocking", "writing", "marking", "done", "refused"},
     sale: Cashiers \cup {None}, todo: SUBSET Products,
     current: Products \cup {None}, restock: [Products -> Int]]

SalesTypeOK ==
    /\ InventoryTypeOK
    /\ sale \in [Cashiers -> SaleRow]
    /\ saleSeq \in Nat
    /\ checkout \in [Cashiers -> Checkout]
    /\ void \in [Voiders -> Void]

SalesInit ==
    /\ sale = [c \in Cashiers |-> [status |-> "none", number |-> 0, items |-> Empty]]
    /\ saleSeq = 0
    /\ checkout = [c \in Cashiers |->
          [pc |-> "idle", basket |-> Empty, read |-> [p \in Products |-> "unread"]]]
    /\ void = [v \in Voiders |->
          [pc |-> "idle", sale |-> None, todo |-> {}, current |-> None,
           restock |-> [p \in Products |-> 0]]]

Answered == {"done", "refused"}

CheckoutsInFlight == {c \in Cashiers : checkout[c].pc \notin Answered \cup {"idle"}}

VoidsInFlight == {v \in Voiders : void[v].pc \notin Answered \cup {"idle"}}

Admitted == Cardinality(CheckoutsInFlight \cup VoidsInFlight) < MaxInFlight

-----------------------------------------------------------------------------
(* SalesService.create *)

\* A basket arrives: at least one line.
OpenCheckout(c) ==
    /\ checkout[c].pc = "idle" /\ Admitted
    /\ \E basket \in Quantities :
          /\ Lines(basket) # {}
          /\ checkout' = [checkout EXCEPT ![c].pc = "pricing", ![c].basket = basket]
    /\ UNCHANGED <<inventoryVars, sale, saleSeq, void>>

\* The product of one line is read outside the transaction; its tracksStock and
\* type travel with the line.
PriceLine(c, p) ==
    /\ checkout[c].pc = "pricing"
    /\ p \in Lines(checkout[c].basket) /\ checkout[c].read[p] = "unread"
    /\ Active(p)
    /\ checkout' = [checkout EXCEPT ![c].read[p] =
          IF TracksStock(product[p]) THEN "tracked" ELSE "untracked"]
    /\ UNCHANGED <<inventoryVars, sale, saleSeq, void>>

\* Product not found, or not active.
RefuseLine(c, p) ==
    /\ checkout[c].pc = "pricing"
    /\ p \in Lines(checkout[c].basket) /\ checkout[c].read[p] = "unread"
    /\ ~Active(p)
    /\ checkout' = [checkout EXCEPT ![c].pc = "refused"]
    /\ UNCHANGED <<inventoryVars, sale, saleSeq, void>>

Priced(c) ==
    /\ checkout[c].pc = "pricing"
    /\ \A p \in Lines(checkout[c].basket) : checkout[c].read[p] # "unread"

\* Lines whose product was tracked when it was read.
Stocked(c) == {p \in Lines(checkout[c].basket) : checkout[c].read[p] = "tracked"}

\* Mutant: the decrement without its stock guard.
CanDecrementAlways(p, qty) == Active(p)

\* updateMany where active and stock >= quantity.
CanDecrement(p, qty) == Active(p) /\ product[p].stock >= qty

\* The row is read back after the decrement: newStock is what it holds,
\* previousStock is newStock + quantity.
SaleMovement(c, p) ==
    LET left == product[p].stock - checkout[c].basket[p]
    IN  MovementRow("SALE", left + checkout[c].basket[p], left, c)

\* Mutant: tracksStock is looked at again inside the transaction.
MovedByTrackedNow(c) ==
    {p \in Lines(checkout[c].basket) : Exists(p) /\ TracksStock(product[p])}

\* The lines that decrement and leave a movement.
MovedBy(c) == Stocked(c)

\* The SERIALIZABLE transaction: number, sale, items, decrements and movements.
\* The foreign key of each SaleItem needs its product to exist still.
CommitSale(c) ==
    /\ Priced(c)
    /\ \A p \in Lines(checkout[c].basket) : Exists(p)
    /\ \A p \in MovedBy(c) : Unlocked(p) /\ CanDecrement(p, checkout[c].basket[p])
    /\ saleSeq' = saleSeq + 1
    /\ sale' = [sale EXCEPT ![c] =
          [status |-> "COMPLETED", number |-> saleSeq + 1, items |-> checkout[c].basket]]
    /\ product' = SetStock(MovedBy(c), LAMBDA p : product[p].stock - checkout[c].basket[p])
    /\ kardex' = Record(MovedBy(c), LAMBDA p : SaleMovement(c, p))
    /\ checkout' = [checkout EXCEPT ![c].pc = "done"]
    /\ UNCHANGED <<lock, void>>

\* A line's conditional decrement matched no row, or its product is gone: the
\* transaction rolls back, number included.
RefuseCommit(c) ==
    /\ Priced(c)
    /\ \/ \E p \in Lines(checkout[c].basket) : ~Exists(p)
       \/ \E p \in MovedBy(c) : Unlocked(p) /\ ~CanDecrement(p, checkout[c].basket[p])
    /\ checkout' = [checkout EXCEPT ![c].pc = "refused"]
    /\ UNCHANGED <<inventoryVars, sale, saleSeq, void>>

\* Mutant: the number is taken outside the transaction and survives its rollback.
FailCheckoutKeepsNumber(c) ==
    /\ checkout[c].pc = "pricing"
    /\ checkout' = [checkout EXCEPT ![c].pc = "refused"]
    /\ saleSeq' = saleSeq + 1
    /\ UNCHANGED <<inventoryVars, sale, void>>

\* Mutant: a checkout that fails hands back a number it may not have taken.
FailCheckoutReturnsNumber(c) ==
    /\ checkout[c].pc = "pricing"
    /\ checkout' = [checkout EXCEPT ![c].pc = "refused"]
    /\ saleSeq' = saleSeq - 1
    /\ UNCHANGED <<inventoryVars, sale, void>>

\* Invalid totals or payments, serialization failure, timeout, lost connection,
\* crash: whatever stops a checkout before its commit leaves no trace.
FailCheckout(c) ==
    /\ checkout[c].pc = "pricing"
    /\ checkout' = [checkout EXCEPT ![c].pc = "refused"]
    /\ UNCHANGED <<inventoryVars, sale, saleSeq, void>>

-----------------------------------------------------------------------------
(* SalesService.update *)

\* Mutant: the check of the persisted status is lost.
VoidableAlways(s) == sale[s].status # "none"

\* 'Only completed sales can be updated'.
Voidable(s) == sale[s].status = "COMPLETED"

\* The sale and its items are read, and its status checked, outside any transaction.
OpenVoid(v, s) ==
    /\ void[v].pc = "idle" /\ Admitted
    /\ Voidable(s)
    /\ \/ void' = [void EXCEPT ![v] = [void[v] EXCEPT
               !.pc = "restocking", !.sale = s, !.todo = Lines(sale[s].items)]]
       \/ void' = [void EXCEPT ![v] = [void[v] EXCEPT !.pc = "marking", !.sale = s]]
    /\ UNCHANGED <<inventoryVars, sale, saleSeq, checkout>>

\* Sale not found, or already cancelled or returned.
RefuseVoid(v, s) ==
    /\ void[v].pc = "idle" /\ Admitted
    /\ ~Voidable(s)
    /\ void' = [void EXCEPT ![v].pc = "refused"]
    /\ UNCHANGED <<inventoryVars, sale, saleSeq, checkout>>

\* One item: findFirst reads the committed row and the new stock is computed
\* from it.  The product is tracked or not as it is now, not as it was sold.
ReadItem(v, p) ==
    /\ void[v].pc = "restocking" /\ p \in void[v].todo
    /\ IF Exists(p) /\ TracksStock(product[p])
       THEN void' = [void EXCEPT ![v] =
               [void[v] EXCEPT !.pc = "writing", !.todo = @ \ {p}, !.current = p,
                  !.restock[p] = product[p].stock + sale[void[v].sale].items[p]]]
       ELSE void' = [void EXCEPT ![v].todo = @ \ {p}]
    /\ UNCHANGED <<inventoryVars, sale, saleSeq, checkout>>

\* product.update where id waits for the row lock and stores the absolute stock;
\* the RETURN movement follows in the same transaction.
WriteItem(v) ==
    /\ void[v].pc = "writing" /\ Unlocked(void[v].current)
    /\ lock' = [lock EXCEPT ![void[v].current] = v]
    /\ void' = [void EXCEPT ![v].pc = "restocking"]
    /\ UNCHANGED <<product, kardex, sale, saleSeq, checkout>>

\* Mutant: the returned line is recorded and its units are not put back.
RestockedUnchanged(v, p) == product[p].stock

\* The stock the void stores: what it computed from its own read.
Restocked(v, p) == void[v].restock[p]

ReturnMovement(v, p) ==
    LET s == void[v].sale
    IN  MovementRow("RETURN", void[v].restock[p] - sale[s].items[p], void[v].restock[p], s)

\* sale.update, with no condition on the status, and the commit.
CommitVoid(v) ==
    /\ void[v].pc = "restocking" /\ void[v].todo = {}
    /\ product' = SetStock(LockedBy(v), LAMBDA p : Restocked(v, p))
    /\ kardex' = Record(LockedBy(v), LAMBDA p : ReturnMovement(v, p))
    /\ lock' = Released(v)
    /\ sale' = [sale EXCEPT ![void[v].sale].status = "CANCELLED"]
    /\ void' = [void EXCEPT ![v].pc = "done"]
    /\ UNCHANGED <<saleSeq, checkout>>

\* RETURNED_PARTIAL is a plain update of the status, with no condition either.
MarkPartial(v) ==
    /\ void[v].pc = "marking"
    /\ sale' = [sale EXCEPT ![void[v].sale].status = "RETURNED_PARTIAL"]
    /\ void' = [void EXCEPT ![v].pc = "done"]
    /\ UNCHANGED <<inventoryVars, saleSeq, checkout>>

\* Mutant: the restock without a transaction, so that a failure keeps the lines written.
AbortVoidKeepsWrites(v) ==
    /\ void[v].pc \in {"restocking", "writing", "marking"}
    /\ product' = SetStock(LockedBy(v), LAMBDA p : Restocked(v, p))
    /\ kardex' = Record(LockedBy(v), LAMBDA p : ReturnMovement(v, p))
    /\ lock' = Released(v)
    /\ void' = [void EXCEPT ![v].pc = "refused"]
    /\ UNCHANGED <<sale, saleSeq, checkout>>

\* Mutant: the locks of a failed transaction are not given back.
AbortVoidKeepsLocks(v) ==
    /\ void[v].pc \in {"restocking", "writing", "marking"}
    /\ void' = [void EXCEPT ![v].pc = "refused"]
    /\ UNCHANGED <<inventoryVars, sale, saleSeq, checkout>>

\* Timeout, deadlock victim, lost connection, crash: the transaction rolls back.
AbortVoid(v) ==
    /\ void[v].pc \in {"restocking", "writing", "marking"}
    /\ lock' = Released(v)
    /\ void' = [void EXCEPT ![v].pc = "refused"]
    /\ UNCHANGED <<product, kardex, sale, saleSeq, checkout>>

-----------------------------------------------------------------------------
(* Waiting *)

VoidWaitsFor(v, r) == void[v].pc = "writing" /\ lock[void[v].current] = r

CheckoutStep(c) ==
    \/ \E p \in Products : PriceLine(c, p) \/ RefuseLine(c, p)
    \/ CommitSale(c)
    \/ RefuseCommit(c)

VoidStep(v) ==
    \/ \E p \in Products : ReadItem(v, p)
    \/ WriteItem(v)
    \/ CommitVoid(v)
    \/ MarkPartial(v)

SalesNext ==
    \/ \E c \in Cashiers : OpenCheckout(c) \/ CheckoutStep(c) \/ FailCheckout(c)
    \/ \E v \in Voiders :
          \/ \E s \in Cashiers : OpenVoid(v, s) \/ RefuseVoid(v, s)
          \/ VoidStep(v)
          \/ AbortVoid(v)

SalesVars == <<inventoryVars, salesVars>>

SalesAloneInit == InventoryInit /\ SalesInit

SalesSpec == SalesAloneInit /\ [][SalesNext]_SalesVars

-----------------------------------------------------------------------------
(* Properties *)

Sold == {s \in Cashiers : sale[s].status # "none"}

\* The numbers of the committed sales are exactly 1..currentNumber, each used
\* once: nextNumber runs inside the sale's transaction, so that a sale that
\* fails after taking its number leaves neither a gap nor a duplicate.
SaleNumbersConsecutive ==
    /\ {sale[s].number : s \in Sold} = 1..saleSeq
    /\ \A s, t \in Sold : sale[s].number = sale[t].number => s = t

\* A sold line takes its units out of stock exactly once if the product was
\* tracked when the line was priced, and leaves no trace otherwise, however the
\* checkouts that compete for the last units interleave.
SoldUnitsLeaveOnce ==
    \A s \in Cashiers, p \in Products :
        LET out == MovementsOf(p, "SALE", s) IN
        IF s \in Sold /\ p \in Stocked(s)
        THEN \E i \in out : out = {i} /\ kardex[p][i].quantity = -sale[s].items[p]
        ELSE out = {}

Returned(s) == {p \in Products : MovementsOf(p, "RETURN", s) # {}}

TakenOut(s) == {p \in Products : MovementsOf(p, "SALE", s) # {}}

\* Cancelling is all or nothing: whatever fails or deadlocks between two lines,
\* a sale has returned all the lines it took out of stock or none, all of them
\* if it is cancelled and none while it is completed.
VoidReturnsWholeSale ==
    \A s \in Cashiers :
        /\ Returned(s) \in {{}, TakenOut(s)}
        /\ sale[s].status = "CANCELLED" => Returned(s) = TakenOut(s)
        /\ sale[s].status \in {"none", "COMPLETED"} => Returned(s) = {}

\* 'Only completed sales can be updated': whatever requests cross, the units of
\* a line come back at most once.
NoSaleIsReturnedTwice ==
    \A s \in Cashiers, p \in Products : Cardinality(MovementsOf(p, "RETURN", s)) <= 1

\* Does the row i of p start where the row before it ended?
Follows(p, i) == i = 1 \/ kardex[p][i].previousStock = kardex[p][i - 1].newStock

\* Does the row i of p, the RETURN of a sale, start where a row left the stock
\* that is not older than the SALE it gives back?
ReturnsAfterItsSale(p, i) ==
    \E first \in MovementsOf(p, "SALE", kardex[p][i].source) : \E j \in first..(i - 1) :
        kardex[p][i].previousStock = kardex[p][j].newStock

\* Under every interleaving the last row of the kardex is the stored stock, and a
\* row starts where the one before it ended.  The one exception is the RETURN of
\* a cancellation, which stores the stock it read: it may write over what was
\* committed since the sale it cancels, and over nothing older.
KardexTellsTheStock ==
    \A p \in Products :
        /\ kardex[p] # <<>> => kardex[p][Len(kardex[p])].newStock = product[p].stock
        /\ \A i \in DOMAIN kardex[p] :
              Follows(p, i) \/ (kardex[p][i].type = "RETURN" /\ ReturnsAfterItsSale(p, i))

-----------------------------------------------------------------------------
(* What the service promises *)

\* The units of p the sale s holds out of stock, by the kardex.
HeldOut(s, p) ==
    -SumFunctionOnSet(Moved(p), {i \in DOMAIN kardex[p] : kardex[p][i].source = s})

SalesBook == INSTANCE SaleBook WITH
    Sales  <- Cashiers,
    status <- [s \in Cashiers |-> sale[s].status],
    taken  <- [s \in Cashiers |-> [p \in Products |-> HeldOut(s, p)]],
    onHand <- [p \in Products |-> product[p].stock]

\* v was overtaken: since its checks its sale was cancelled or returned, or the
\* stock of a line it writes is no longer the one it computed from.
Overtaken(v) ==
    \/ ~Voidable(void[v].sale)
    \/ \E p \in LockedBy(v) :
          void[v].restock[p] # product[p].stock + sale[void[v].sale].items[p]

\* An update that was overtaken takes effect nevertheless.
StaleCommit(v) == void[v].pc # "done" /\ void'[v].pc = "done" /\ Overtaken(v)

\* The checkouts and voids of the service are those of the sale book: units leave
\* with a sale that finds them all on hand, and come back once.  Under every
\* interleaving the only steps that are not the book's are the last ones of
\* updates that were overtaken.
ImplementsSaleBook ==
    /\ SalesBook!Init
    /\ [][(\E v \in Voiders : StaleCommit(v)) \/ SalesBook!Next]_(SalesBook!bookVars)
=============================================================================
