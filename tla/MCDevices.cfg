SPECIFICATION Spec
CONSTANTS
    g1 = g1
    g2 = g2
    n1 = n1
    Users = {"ann"}
    Orders = {"small", "gift"}
    Devices = {g1, g2, n1}
    Locations = {"de", "nl"}
    Plans = {"basic", "ext"}
    Handlers = {h1, h2}
    None = "none"
    Buyer <- MCBuyer
    PlanOf <- MCPlanOf
    Manual = {"gift"}
    PlaceOf <- MCPlaceOf
    Limit <- MCLimit
    DefaultLimit = 1
    Germany = "de"
    FirstListed = "nl"
    Pausings = {{"de"}, {"de", "nl"}}
    Linked = {n1}
    MaxRestarts = 1
    MaxLost = 1
SYMMETRY Interchangeable
INVARIANTS
    WithinPlan
    RowsMatchEntries
    FilesWork
PROPERTY
    PausedTakesNone
CHECK_DEADLOCK FALSE
