------------------------------- MODULE Counter -------------------------------
(***************************************************************************)
(* The point of sale (app/pos/page.tsx, usePausedSales): the cart, the     *)
(* sales paused aside, and the requests in flight of one page.             *)
(*                                                                         *)
(* The page works on copies of products: a line keeps the price and the    *)
(* stock its product had when it was put there, while the shelf moves on.  *)
(* A request is a call; its answer is handled when it comes, whatever the  *)
(* page looks like by then.  With serving = 1 the cashier waits for every  *)
(* answer.  Customers, taxes (a factor of every amount), the discount on   *)
(* the whole sale, services (whose stock has no limit) and a reload of     *)
(* the page, which loses the cart, are left out; what a request reads is   *)
(* read as it is answered: the shelf may do anything next anyway.          *)
(***************************************************************************)
EXTENDS Desk, FiniteSetsExt, Functions

CONSTANTS
    Products,       \* the products on the shelf
    Prices,         \* what a product may cost
    MaxStock,       \* bound: units of a product on the shelf
    MaxUnits,       \* bound: units on the page at once
    MaxPaused       \* bound: paused sales

\* There is a highest price: the column of a price is Decimal(10, 2).
ASSUME CounterAssumption ==
    /\ Prices \subseteq Nat /\ MaxStock \in Nat /\ MaxUnits \in Nat /\ MaxPaused \in Nat
    /\ \E price \in Prices : \A other \in Prices : other <= price

VARIABLES
    shelf,          \* each product on the server: its price, its stock, and whether it is active
    cart,           \* the lines of the cart, by product
    pausedSales,    \* the carts put aside
    modal,          \* the modal that is open
    handler,        \* the requests in flight; a finished one may be made again
    excused,        \* units went astray in a way the page does not prevent, see below
    owed            \* units asked for, less those sold; not counted once excused

counterVars == <<shelf, cart, pausedSales, modal, handler, excused, owed>>

\* A product that is removed stays, as one that is not active (ProductsService.remove).
Product == [price : Prices, stock : 0..MaxStock, active : BOOLEAN]

Upper == CHOOSE price \in Prices : \A other \in Prices : other <= price

Line == [qty : 0..MaxStock, seen : Prices, unit : Prices, off : 0..MaxStock * Upper,
         percent : BOOLEAN, avail : 0..MaxStock]

EmptyCart == [p \in {} |-> None]

Cart(lines) == DOMAIN lines \subseteq Products /\ \A p \in DOMAIN lines : lines[p] \in Line

Idle == [pc |-> "idle", lines |-> EmptyCart]

CounterTypeOK ==
    /\ shelf \in [Products -> Product]
    /\ Cart(cart)
    /\ \A lines \in pausedSales : Cart(lines) /\ lines # EmptyCart
    /\ modal \in {"none", "payment", "paused"}
    /\ \A c \in Calls :
          /\ handler[c].pc \in {"idle", "scan", "sell", "sold", "failed", "fetch"}
          /\ Cart(handler[c].lines)
    /\ owed \in Int
    /\ excused \in BOOLEAN

CounterInit ==
    /\ shelf \in [Products -> Product]
    /\ cart = EmptyCart
    /\ pausedSales = {}
    /\ modal = "none"
    /\ handler = [c \in Calls |-> Idle]
    /\ owed = 0
    /\ excused = FALSE

Units(lines) == FoldFunction(LAMBDA line, sum : line.qty + sum, 0, lines)

\* The units in the cart and the paused sales, and those of a sale being resumed.
Held == Units(cart) + FoldSet(LAMBDA lines, sum : Units(lines) + sum, 0, pausedSales)

Resuming ==
    FoldSet(LAMBDA c, sum : Units(handler[c].lines) + sum, 0, {c \in Calls : handler[c].pc = "fetch"})

RoomLeft == Held + Resuming < MaxUnits

Owe(units) == IF excused THEN 0 ELSE units

\* A step after which owed is counted no more.
Excuse(cond) ==
    /\ excused' = (excused \/ cond)
    /\ owed' = IF cond THEN 0 ELSE owed

\* The cashier may use the page.
AtHand == serving > 1 \/ InService(handler) = {}

\* Bound: where the cashier does not wait, no discount is given, and neither a price nor
\* the stock changes by another hand.
Lively == serving = 1

\* Other tills sell, goods arrive, prices and promotions change, products are removed and
\* reactivated.
ShelfMoves(p, product) ==
    /\ Lively
    /\ shelf' = [shelf EXCEPT ![p] = product]
    /\ UNCHANGED <<cart, pausedSales, modal, handler, excused, owed>>

-----------------------------------------------------------------------------
\* Mutant: a fixed discount stays as it is.
DiscountKept(line, unit, qty) ==
    IF line.percent THEN (unit * qty) \div 2 ELSE line.off

\* A fixed discount stays and shrinks to its line, one in percent (the page offers half)
\* goes with it.
Discount(line, unit, qty) ==
    IF line.percent THEN (unit * qty) \div 2 ELSE Min({line.off, unit * qty})

\* addToCart(product, 1), for a product as it was when the page last saw it.
WithOneMore(lines, p, product) ==
    IF product.stock <= 0 \/ (p \in DOMAIN lines /\ lines[p].qty >= product.stock)
    THEN lines
    ELSE IF p \in DOMAIN lines
    THEN [lines EXCEPT ![p].qty = lines[p].qty + 1,
                       ![p].off = Discount(lines[p], lines[p].unit, lines[p].qty + 1)]
    ELSE [q \in DOMAIN lines \cup {p} |->
             IF q = p THEN [qty |-> 1, seen |-> product.price, unit |-> product.price, off |-> 0,
                            percent |-> FALSE, avail |-> product.stock]
             ELSE lines[q]]

\* The cashier changes the cart, and with it what the customer asks for.
Change(lines) ==
    /\ cart' = lines
    /\ owed' = Owe(owed + Units(lines) - Units(cart))
    /\ UNCHANGED <<shelf, pausedSales, excused>>

\* A product is picked from the list of the active ones; the list may be old.
Ring(p, product) ==
    /\ AtHand /\ modal = "none" /\ RoomLeft /\ product.active
    /\ Lively \/ product = shelf[p]
    /\ Change(WithOneMore(cart, p, product))
    /\ UNCHANGED <<modal, handler>>

RemoveFromCart(p) ==
    /\ AtHand /\ modal = "none" /\ p \in DOMAIN cart
    /\ Change(Restrict(cart, DOMAIN cart \ {p}))
    /\ UNCHANGED <<modal, handler>>

\* updateQuantity, by the stepper: one up as far as the stock seen, or one down.
UpdateQuantity(p, quantity) ==
    LET line == cart[p]
        qty == Min({quantity, line.avail}) IN
    /\ AtHand /\ modal = "none" /\ p \in DOMAIN cart
    /\ quantity \in {line.qty - 1} \cup (IF line.qty < line.avail /\ RoomLeft THEN {line.qty + 1} ELSE {})
    /\ quantity > 0
    /\ Change([cart EXCEPT ![p].qty = qty, ![p].off = Discount(line, line.unit, qty)])
    /\ UNCHANGED <<modal, handler>>

\* updateItemDiscount and updateItemDiscountPercent: nothing, the whole line, or half.
UpdateDiscount(p, kind) ==
    LET gross == cart[p].unit * cart[p].qty IN
    /\ AtHand /\ Lively /\ modal = "none" /\ p \in DOMAIN cart
    /\ Change([cart EXCEPT ![p].percent = kind = "half",
                           ![p].off = CASE kind = "none" -> 0
                                        [] kind = "whole" -> gross
                                        [] kind = "half" -> gross \div 2])
    /\ UNCHANGED <<modal, handler>>

\* updateItemPrice: the line's own price from here on.
UpdateItemPrice(p, price) ==
    /\ AtHand /\ Lively /\ modal = "none" /\ p \in DOMAIN cart
    /\ Change([cart EXCEPT ![p].unit = price, ![p].off = Discount(cart[p], price, cart[p].qty)])
    /\ UNCHANGED <<modal, handler>>

\* handleScanSubmit asks for an active product, unless a modal is open; its answer, if
\* there is one, is put in the cart whatever is open by then.  The scanner waits for it.
BeginScan(c) ==
    /\ Admitted(handler, c) /\ modal = "none"
    /\ \A d \in Calls : handler[d].pc # "scan"
    /\ handler' = [handler EXCEPT ![c].pc = "scan"]
    /\ UNCHANGED <<shelf, cart, pausedSales, modal, excused, owed>>

EndScan(c, p) ==
    /\ handler[c].pc = "scan"
    /\ \/ Change(cart)
       \/ RoomLeft /\ shelf[p].active /\ Change(WithOneMore(cart, p, shelf[p]))
    /\ handler' = [handler EXCEPT ![c] = Idle]
    /\ UNCHANGED modal

-----------------------------------------------------------------------------
OpenModal(m) ==
    /\ AtHand /\ modal = "none"
    /\ m = "payment" => cart # EmptyCart
    /\ modal' = m
    /\ UNCHANGED <<shelf, cart, pausedSales, handler, excused, owed>>

\* A modal may be closed at any time, also while its request is in flight.
CloseModal ==
    /\ AtHand /\ modal # "none"
    /\ modal' = "none"
    /\ UNCHANGED <<shelf, cart, pausedSales, handler, excused, owed>>

\* handleCheckout: paid in full as the page computes it; one sale at a time.
BeginCheckout(c) ==
    /\ Admitted(handler, c) /\ modal = "payment" /\ cart # EmptyCart
    /\ \A d \in Calls : handler[d].pc \notin {"sell", "sold", "failed"}
    /\ handler' = [handler EXCEPT ![c] = [pc |-> "sell", lines |-> cart]]
    /\ UNCHANGED <<shelf, cart, pausedSales, modal, excused, owed>>

\* cartItemPriceOverride: a price goes along only where it is not the product's, so that
\* the server charges its own otherwise.
Charged(p, line) == IF line.unit = line.seen THEN shelf[p].price ELSE line.unit

Total(lines, unit(_)) ==
    FoldFunctionOnSet(LAMBDA sum, more : sum + more, 0,
                      [p \in DOMAIN lines |-> unit(p) * lines[p].qty - lines[p].off], DOMAIN lines)

\* Mutant: the stock is not looked at.
AcceptsBlindly(lines) ==
    /\ \A p \in DOMAIN lines :
          shelf[p].active /\ lines[p].qty > 0 /\ lines[p].off <= Charged(p, lines[p]) * lines[p].qty
    /\ Total(lines, LAMBDA p : Charged(p, lines[p])) <= Total(lines, LAMBDA p : lines[p].unit)

\* SalesService.create: an active product, a quantity, a discount within the line, enough
\* paid, enough stock.
Accepts(lines) ==
    /\ \A p \in DOMAIN lines :
          /\ shelf[p].active
          /\ lines[p].qty \in 1..shelf[p].stock
          /\ lines[p].off <= Charged(p, lines[p]) * lines[p].qty
    /\ Total(lines, LAMBDA p : Charged(p, lines[p])) <= Total(lines, LAMBDA p : lines[p].unit)

Sell(c) ==
    LET lines == handler[c].lines IN
    /\ handler[c].pc = "sell"
    /\ IF Accepts(lines)
       THEN /\ shelf' = [p \in Products |->
                  IF p \in DOMAIN lines THEN [shelf[p] EXCEPT !.stock = shelf[p].stock - lines[p].qty]
                  ELSE shelf[p]]
            /\ owed' = Owe(owed - Units(lines))
            /\ handler' = [handler EXCEPT ![c].pc = "sold"]
       ELSE /\ handler' = [handler EXCEPT ![c].pc = "failed"]
            /\ UNCHANGED <<shelf, owed>>
    /\ UNCHANGED <<cart, pausedSales, modal, excused>>

\* The answer clears the cart there is by then.
EndCheckout(c) ==
    /\ handler[c].pc = "sold"
    /\ cart' = EmptyCart
    /\ modal' = "none"
    /\ handler' = [handler EXCEPT ![c] = Idle]
    /\ Excuse(cart # handler[c].lines)
    /\ UNCHANGED <<shelf, pausedSales>>

\* The sale was refused, or its answer is lost: the cart stays, to be sold again.
FailCheckout(c) ==
    /\ handler[c].pc \in {"sold", "failed"}
    /\ handler' = [handler EXCEPT ![c] = Idle]
    /\ Excuse(handler[c].pc = "sold")
    /\ UNCHANGED <<shelf, cart, pausedSales, modal>>

-----------------------------------------------------------------------------
\* pausedSaleSignature.
Signature(lines) ==
    [p \in DOMAIN lines |-> <<lines[p].qty, lines[p].unit, lines[p].off, lines[p].percent>>]

\* handlePauseSale: a sale equal to one that is paused already counts as that one.
PauseSale ==
    LET same == \E lines \in pausedSales : Signature(lines) = Signature(cart) IN
    /\ AtHand /\ modal = "none" /\ cart # EmptyCart
    /\ same \/ Cardinality(pausedSales) < MaxPaused
    /\ pausedSales' = IF same THEN pausedSales ELSE pausedSales \cup {cart}
    /\ Excuse(same)
    /\ cart' = EmptyCart
    /\ UNCHANGED <<shelf, modal, handler>>

\* Mutant: the sale stays in the list.
BeginResumeKept(c, lines) ==
    /\ Admitted(handler, c) /\ modal = "paused" /\ lines \in pausedSales
    /\ handler' = [handler EXCEPT ![c] = [pc |-> "fetch", lines |-> lines]]
    /\ UNCHANGED <<shelf, cart, pausedSales, modal, excused, owed>>

\* handleResumeSale: the sale leaves the list, and its products are asked for.
BeginResume(c, lines) ==
    /\ Admitted(handler, c) /\ modal = "paused" /\ lines \in pausedSales
    /\ pausedSales' = pausedSales \ {lines}
    /\ handler' = [handler EXCEPT ![c] = [pc |-> "fetch", lines |-> lines]]
    /\ UNCHANGED <<shelf, cart, modal, excused, owed>>

\* The line at the price there is now, or as it was when that cannot be had.  A price of
\* the cashier's own is forgotten, a discount in percent keeps its amount.
Repriced(line, product) ==
    [line EXCEPT !.seen = product.price, !.unit = product.price, !.avail = product.stock,
                 !.off = Min({line.off, product.price * line.qty})]

\* The product of a line as it is asked for: one that is not active is not found, and one
\* that is not had, for that or because the request failed, is as the line has it.
AskedFor(p, line, failed) ==
    IF p \in failed \/ ~shelf[p].active
    THEN [price |-> line.seen, stock |-> line.avail]
    ELSE [price |-> shelf[p].price, stock |-> shelf[p].stock]

\* The sale takes the place of the cart there is by then.
EndResume(c, failed) ==
    LET lines == handler[c].lines IN
    /\ handler[c].pc = "fetch"
    /\ cart' = [p \in DOMAIN lines |-> Repriced(lines[p], AskedFor(p, lines[p], failed))]
    /\ Excuse(cart # EmptyCart)
    /\ modal' = IF modal = "paused" THEN "none" ELSE modal
    /\ handler' = [handler EXCEPT ![c] = Idle]
    /\ UNCHANGED <<shelf, pausedSales>>

DeletePaused(lines) ==
    /\ AtHand /\ modal = "paused" /\ lines \in pausedSales
    /\ pausedSales' = pausedSales \ {lines}
    /\ owed' = Owe(owed - Units(lines))
    /\ UNCHANGED <<shelf, cart, modal, handler, excused>>

-----------------------------------------------------------------------------
CounterNext ==
    \/ \E p \in Products, product \in Product : ShelfMoves(p, product) \/ Ring(p, product)
    \/ \E p \in Products :
          \/ RemoveFromCart(p)
          \/ \E quantity \in 1..MaxStock : UpdateQuantity(p, quantity)
          \/ \E kind \in {"none", "whole", "half"} : UpdateDiscount(p, kind)
          \/ \E price \in Prices : UpdateItemPrice(p, price)
    \/ \E m \in {"payment", "paused"} : OpenModal(m)
    \/ CloseModal \/ PauseSale
    \/ \E c \in Calls :
          \/ BeginScan(c)
          \/ \E p \in Products : EndScan(c, p)
          \/ BeginCheckout(c) \/ Sell(c) \/ EndCheckout(c) \/ FailCheckout(c)
          \/ \E lines \in pausedSales : BeginResume(c, lines)
          \/ \E failed \in SUBSET Products : EndResume(c, failed)
    \/ \E lines \in pausedSales : DeletePaused(lines)

-----------------------------------------------------------------------------
(* Properties *)

\* What a customer asked for is in the cart or paused until it is sold or taken back
\* (page.tsx, usePausedSales), but for what the page does not prevent: a sale made whose
\* answer is lost, or finds the cart changed; a sale resumed over a cart with lines, or
\* over another that is being resumed; two equal sales paused as one.
NothingRungUpIsLost ==
    ~excused /\ (\A c \in Calls : handler[c].pc # "sold") => Held + Resuming = owed

\* The page still knows the product of this line, and sells what it knows there is.
Fresh(p, line) ==
    /\ shelf[p].active
    /\ line.seen = shelf[p].price
    /\ line.qty > 0 /\ line.qty <= line.avail /\ line.avail <= shelf[p].stock

\* The page and the server compute a sale alike: the server refuses a checkout only when
\* a product was removed, a price changed or stock went since the page saw it, or when a
\* resumed sale asks for more than there is (SalesService.create checks what addToCart,
\* the discounts, the prices and a resumed sale leave in the cart).
FreshCheckoutIsAccepted ==
    \A c \in Calls :
        LET lines == handler[c].lines IN
        handler[c].pc = "sell" /\ (\A p \in DOMAIN lines : Fresh(p, lines[p])) => Accepts(lines)
=============================================================================
