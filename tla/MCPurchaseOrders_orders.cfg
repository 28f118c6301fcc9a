SPECIFICATION MixedSpec
CONSTANTS
    Products = {p1, p2}
    Orders = {o1}
    Documents = {o1}
    Clerks = {k1, k2, k3}
    Requests = {k1, k2, k3}
    None = None
    Kinds = {"create", "update", "confirm", "receive", "cancel"}
    OpeningStatus = {"none", "DRAFT", "PENDING"}
    OpeningKinds = {"tracked", "untracked"}
    OpeningStock = 1
    MaxOrdered = 2
    MaxServed = 3
SYMMETRY Symmetry
CHECK_DEADLOCK FALSE
INVARIANTS
    ReceiptsMatchKardex
    ReceivedMeansComplete
    KardexChained
    TotalsMatchItems
PROPERTIES
    ImplementsPurchaseBook
