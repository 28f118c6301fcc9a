SPECIFICATION StoreSafetySpec
CONSTANTS
    Products = {p1}
    Cashiers = {c1}
    Voiders = {v1}
    Editors = {e1}
    Clerks = {}
    Orders = {}
    Requests = {c1, v1, e1}
    Documents = {c1}
    None = None
    Omitted = Omitted
    Kinds = {}
    OpeningStatus = {"none"}
    OpeningKinds = {"service"}
    OpeningStock = 1
    MaxQty = 1
    MaxInFlight = 2
    MaxStock = 1
    MaxOrdered = 1
    MaxServed = 1
CHECK_DEADLOCK FALSE
INVARIANT NothingReturnedThatWasNotSold
