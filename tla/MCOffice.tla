------------------------------- MODULE MCOffice -------------------------------
EXTENDS Office, TLC

\* Taxed work that is not stocked beside goods that are.
CatalogDef ==
    ("part"   :> [price |-> 4, cost |-> 1, rate |-> 0, tracked |-> TRUE,  category |-> "goods"]) @@
    ("labour" :> [price |-> 2, cost |-> 0, rate |-> 1, tracked |-> FALSE, category |-> "work"])

Bill(parts, hours, off, discount, cash, card, seller) ==
    [units |-> [part |-> parts, labour |-> hours], off |-> off, discount |-> discount,
     paid |-> [CASH |-> cash, CARD |-> card], seller |-> seller]

\* One discounted by line and as a whole, and overpaid; one paid by card; one that comes to
\* nothing; one not paid in full, which is refused.  Every share of a discount is whole.
TicketsDef ==
    {Bill(1, 1, [part |-> 2, labour |-> 0], 2, 5, 0, "ann"),
     Bill(2, 0, [part |-> 0, labour |-> 0], 0, 0, 8, "bea"),
     Bill(0, 1, [part |-> 0, labour |-> 2], 0, 1, 0, "ann"),
     Bill(1, 0, [part |-> 0, labour |-> 0], 0, 3, 0, "bea")}

\* Calls are interchangeable, and so are the rows of every service but the users, one of whom
\* owns the organizations while other services are at work.  The services share
\* no state, so that the same model values may stand for the rows of all.
Symmetry == Permutations(Calls) \cup Permutations(Rows) \cup Permutations(Keys)
=============================================================================
