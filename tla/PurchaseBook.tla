----------------------------- MODULE PurchaseBook -----------------------------
(***************************************************************************)
(* What the purchase orders promise, with no requests, locks, items or     *)
(* kardex: an order is drafted, edited while it is a draft, confirmed,     *)
(* received in as many parts as it takes and never beyond what it ordered, *)
(* or cancelled before anything came in; what is received enters stock.    *)
(* Each operation is one step.                                             *)
(***************************************************************************)
EXTENDS Integers

CONSTANTS
    Orders,
    Products,
    MaxOrdered  \* bound: units of a product on one order

VARIABLES
    status,     \* of each order
    ordered,    \* units of each product each order asks for
    received,   \* units of each product each order got
    onHand,     \* units in stock
    stocked     \* the products kept in stock

bookVars == <<status, ordered, received, onHand, stocked>>

Units == [Products -> 0..MaxOrdered]

Nothing == [p \in Products |-> 0]

Init ==
    /\ status \in [Orders -> {"none", "DRAFT", "PENDING"}]
    /\ ordered \in [Orders -> Units]
    /\ \A o \in Orders : status[o] = "none" <=> ordered[o] = Nothing
    /\ received = [o \in Orders |-> Nothing]
    /\ onHand \in [Products -> Nat]
    /\ stocked \in SUBSET Products

\* An order is created or, while it is a draft, has its items replaced.
Draft(o) ==
    /\ status[o] \in {"none", "DRAFT"}
    /\ status' = [status EXCEPT ![o] = "DRAFT"]
    /\ \E units \in Units : units # Nothing /\ ordered' = [ordered EXCEPT ![o] = units]
    /\ UNCHANGED <<received, onHand, stocked>>

Confirm(o) ==
    /\ status[o] = "DRAFT"
    /\ status' = [status EXCEPT ![o] = "PENDING"]
    /\ UNCHANGED <<ordered, received, onHand, stocked>>

\* What comes in is what the receipt says, in as many parts as it takes.
Receive(o) ==
    LET units == [p \in Products |-> received'[o][p] - received[o][p]] IN
    /\ status[o] \in {"PENDING", "PARTIAL_RECEIVED"}
    /\ units \in [Products -> Nat] /\ units # Nothing
    /\ \A p \in Products : received'[o][p] <= ordered[o][p]
    /\ \A x \in Orders \ {o} : received'[x] = received[x]
    /\ onHand' = [p \in Products |-> IF p \in stocked THEN onHand[p] + units[p] ELSE onHand[p]]
    /\ status' = [status EXCEPT ![o] =
          IF received'[o] = ordered[o] THEN "RECEIVED" ELSE "PARTIAL_RECEIVED"]
    /\ UNCHANGED <<ordered, stocked>>

Cancel(o) ==
    /\ status[o] \in {"DRAFT", "PENDING"}
    /\ status' = [status EXCEPT ![o] = "CANCELLED"]
    /\ UNCHANGED <<ordered, received, onHand, stocked>>

Next == \E o \in Orders : Draft(o) \/ Confirm(o) \/ Receive(o) \/ Cancel(o)

Spec == Init /\ [][Next]_bookVars
=============================================================================
