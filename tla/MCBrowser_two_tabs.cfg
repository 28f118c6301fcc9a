SPECIFICATION BrowserSpec
CONSTANTS
    Calls = {c1}
    None = None
    MaxServing = 2
    TTL = 1
    Tabs = {a1, a2}
    Orgs = {o1}
    FirstOrg = o1
    Requests = {r1}
    MaxTokens = 3
    Codes = {k1}
    MaxRows = 1
    Products = {p1}
    Prices = {1}
    MaxStock = 0
    MaxUnits = 1
    MaxPaused = 1
INVARIANT TabsDoNotEndEachOther
CHECK_DEADLOCK FALSE
