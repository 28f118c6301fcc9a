SPECIFICATION SalesSpec
CONSTANTS
    Products = {p1, p2}
    Cashiers = {c1}
    Voiders = {v1, v2}
    Requests = {c1, v1, v2}
    Documents = {c1}
    None = None
    OpeningKinds = {"tracked"}
    OpeningStock = 1
    MaxQty = 1
    MaxInFlight = 3
CHECK_DEADLOCK FALSE
INVARIANT NoSaleIsReturnedTwice
