--------------------------- MODULE MCPurchaseOrders ---------------------------
(* PurchaseOrders for TLC: its symmetry, and the behaviours a run goes through. *)
EXTENDS PurchaseOrders, TLC

Symmetry == Permutations(Products) \cup Permutations(Clerks)

\* Either the receipts of an order that is pending, three of them at once; or any
\* three requests, two of them at once.
VARIABLE receipts

Scenario(c) ==
    /\ receipts => clerk'[c].pc \notin {"creating", "replacing", "confirming", "cancelling"}
    /\ ~receipts => Cardinality(Served') <= 2
    \* What an overtaken update leaves breaks the invariants, and the refinement
    \* excuses it: behaviours end before it.
    /\ ~(clerk[c].pc = "inserting" /\ StaleEnd(c))

MixedInit ==
    /\ OrdersAloneInit
    /\ receipts \in BOOLEAN
    /\ receipts => \A o \in Orders : order[o].status = "PENDING"

MixedNext ==
    /\ OrdersNext /\ UNCHANGED receipts
    /\ \E c \in Clerks : clerk'[c] # clerk[c] /\ Scenario(c)

MixedSpec == MixedInit /\ [][MixedNext]_<<OrdersVars, receipts>>
=============================================================================
