CONSTANTS
    Sales = {1, 2, 3, 4, 5, 6, 7}
    StampedAt <- MCStampedAt
    OutletOf <- MCOutletOf
    SoldOn <- MCSoldOn
    Clerk <- MCClerk
    Method <- MCMethod
    Total <- MCTotal
    Paid <- MCPaid
    Tax <- MCTax
    Probes = {4}
    Outlets = {"o1", "o2"}
    Dates = {1, 2}
    NoSale = 0
    NoDate = 0
    PageSize = 1
    TableSize = 1
    MaxVoids = 3
    Roles = {"owner", "cashier"}
    ManagerRoles = {"owner"}
    NoRole = "none"
    MaxPages = 3
    MaxChosen = 1
    Tabs = {"t1", "t2"}
    Skus = {"a", "b"}
    Values = {1, 2}
    Files <- MCFiles
    Bad = 0
    Tenders = {"x"}
    Blank = Blank
    Importers = {"t1"}
    Editors = {"t2"}
    MaxWrites = 2
    MaxRows = 2
SPECIFICATION OfficeSpec
INVARIANT SettledIsAsked
INVARIANT WalkMissesNone
 
INVARIANT DroppedIsVerified
PROPERTY ImportLandsWhole
CHECK_DEADLOCK FALSE
