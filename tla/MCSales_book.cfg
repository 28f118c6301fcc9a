SPECIFICATION SalesSpec
CONSTANTS
    Products = {p1, p2}
    Cashiers = {c1, c2}
    Voiders = {v1, v2}
    Requests = {c1, c2, v1, v2}
    Documents = {c1, c2}
    None = None
    OpeningKinds = {"tracked", "service", "absent"}
    OpeningStock = 3
    MaxQty = 2
    MaxInFlight = 4
SYMMETRY Symmetry
CHECK_DEADLOCK FALSE
INVARIANTS
    SaleNumbersConsecutive
    KardexTellsTheStock
PROPERTIES
    ImplementsSaleBook
