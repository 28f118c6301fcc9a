SPECIFICATION MixedSpec
CONSTANTS
    Products = {p1}
    Orders = {o1}
    Documents = {o1}
    Clerks = {k1, k2}
    Requests = {k1, k2}
    None = None
    Kinds = {"receive"}
    OpeningStatus = {"PENDING"}
    OpeningKinds = {"tracked"}
    OpeningStock = 0
    MaxOrdered = 1
    MaxServed = 2
CHECK_DEADLOCK FALSE
INVARIANT NeverOverReceived
