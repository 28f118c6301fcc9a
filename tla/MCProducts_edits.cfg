SPECIFICATION ProductsSpec
CONSTANTS
    Products = {p1}
    Editors = {e1, e2}
    Requests = {e1, e2}
    Documents = {}
    None = None
    Omitted = Omitted
    OpeningKinds = {"tracked", "untracked", "service", "absent"}
    OpeningStock = 1
    MaxStock = 2
SYMMETRY Symmetry
CHECK_DEADLOCK FALSE
INVARIANTS
    KardexLagsByUnlogged
    UntrackedHoldsNoStock
PROPERTY NoEditIsOverwritten
