SPECIFICATION OfficeSpec
CONSTANTS
    Calls = {c1, c2, c3}
    None = None
    MaxServing = 2
    TTL = 1
    MaxTime = 2
    Tasks = {a1, a2}
    Expenses = {a1, a2}
    MaxTotal = 2
    Registers = {a1, a2}
    Names = {b1, b2}
    Orgs = {a1, a2}
    Users = {u1, u2}
    Rows = {a1, a2}
    Limit = 1
    Keys = {b1, b2}
    Sold = {a1, a2}
    MaxYear = 2
    MaxNumber = 2
    Rung = {a1, a2}
    Catalog <- CatalogDef
    Tickets <- TicketsDef
    Leaving = {"ann"}
    TicksPerDay = 2
    LastTick = 2
    DaysPerMonth = 2
    DefaultDays = 1
    Entries = {a1, a2}
    Labels = {b1, b2}
    Refs = {a1, a2}
SYMMETRY Symmetry
CHECK_DEADLOCK FALSE
INVARIANTS
    OfficeTypeOK
    TimelineTellsStatus
    TimelineIsAHistory
    StatusTellsPayments
    DanglingReceiptsAreOwed
    AtMostOneDefault
    OneOwner
    GuardedRowsFitThePlan
    DashboardShowsEverySale
    NextNumberIsFree
    ReportsReconcile
    DirectoryKeepsWhatIsUsed
PROPERTIES
    RemovalsStayInTheOrganization
    NoSettingIsLost
    ReportsAreBoundedlyStale
    ClosedPeriodsKeepTheirOverview
