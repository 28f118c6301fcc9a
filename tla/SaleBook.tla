------------------------------- MODULE SaleBook -------------------------------
(***************************************************************************)
(* What the sales component promises, with no requests, locks, kardex or   *)
(* numbers: a sale takes its units out of stock when it is made, if they   *)
(* are all there, and a sale that is cancelled puts back the same units,   *)
(* once.  Each operation is one step.                                      *)
(***************************************************************************)
EXTENDS Integers

CONSTANTS
    Sales,
    Products,
    MaxQty      \* bound: units of a product in one sale

VARIABLES
    status,     \* "none", "COMPLETED", "CANCELLED" or "RETURNED_PARTIAL"
    taken,      \* units of each product each sale holds out of stock
    onHand      \* units in stock

bookVars == <<status, taken, onHand>>

Nothing == [p \in Products |-> 0]

Init ==
    /\ status = [s \in Sales |-> "none"]
    /\ taken = [s \in Sales |-> Nothing]
    /\ onHand \in [Products -> Nat]

Sell(s) ==
    /\ status[s] = "none"
    /\ status' = [status EXCEPT ![s] = "COMPLETED"]
    /\ \E units \in [Products -> 0..MaxQty] :
          /\ \A p \in Products : units[p] <= onHand[p]
          /\ taken' = [taken EXCEPT ![s] = units]
          /\ onHand' = [p \in Products |-> onHand[p] - units[p]]

Cancel(s) ==
    /\ status[s] = "COMPLETED"
    /\ status' = [status EXCEPT ![s] = "CANCELLED"]
    /\ taken' = [taken EXCEPT ![s] = Nothing]
    /\ onHand' = [p \in Products |-> onHand[p] + taken[s][p]]

ReturnPartially(s) ==
    /\ status[s] = "COMPLETED"
    /\ status' = [status EXCEPT ![s] = "RETURNED_PARTIAL"]
    /\ UNCHANGED <<taken, onHand>>

Next == \E s \in Sales : Sell(s) \/ Cancel(s) \/ ReturnPartially(s)

Spec == Init /\ [][Next]_bookVars
=============================================================================
