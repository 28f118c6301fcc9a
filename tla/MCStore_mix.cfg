SPECIFICATION StoreSafetySpec
CONSTANTS
    Products = {p1}
    Cashiers = {c1, c2}
    Voiders = {v1}
    Editors = {e1}
    Clerks = {k1}
    Orders = {o1}
    Requests = {c1, c2, v1, e1, k1}
    Documents = {c1, c2, o1}
    None = None
    Omitted = Omitted
    Kinds = {"receive", "create"}
    OpeningStatus = {"none", "PENDING"}
    OpeningKinds = {"tracked", "service"}
    OpeningStock = 1
    MaxQty = 1
    MaxInFlight = 3
    MaxStock = 1
    MaxOrdered = 1
    MaxServed = 1
CHECK_DEADLOCK FALSE
SYMMETRY Symmetry
INVARIANTS
    StoreTypeOK
    NeverOversold
    SoldUnitsLeaveOnce
