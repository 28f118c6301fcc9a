SPECIFICATION StoreSpec
CONSTANTS
    Products = {p1, p2}
    Cashiers = {c1}
    Voiders = {v1}
    Editors = {}
    Clerks = {k1}
    Orders = {o1}
    Requests = {c1, v1, k1}
    Documents = {c1, o1}
    None = None
    Omitted = Omitted
    Kinds = {"receive"}
    OpeningStatus = {"PENDING"}
    OpeningKinds = {"tracked"}
    OpeningStock = 1
    MaxQty = 1
    MaxInFlight = 2
    MaxStock = 0
    MaxOrdered = 1
    MaxServed = 1
CHECK_DEADLOCK FALSE
INVARIANT VoidReturnsWholeSale
PROPERTY EveryStoreRequestIsAnswered
