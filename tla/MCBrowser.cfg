SPECIFICATION FairBrowserSpec
CONSTANTS
    Calls = {c1, c2}
    None = None
    MaxServing = 2
    TTL = 1
    Tabs = {a1, a2}
    Orgs = {o1, o2}
    FirstOrg = o1
    Requests = {r1}
    MaxTokens = 3
    Codes = {k1, k2}
    MaxRows = 2
    Products = {p1}
    Prices = {1, 2}
    MaxStock = 2
    MaxUnits = 2
    MaxPaused = 1
INVARIANTS
    BrowserTypeOK
    ActiveTokenIsTheCookies
    ReportTellsTheRows
    RowsAreMadeOnce
    NothingRungUpIsLost
    FreshCheckoutIsAccepted
PROPERTIES
    RequestsAreSettled
    PageLearnsTheEnd
CHECK_DEADLOCK FALSE
