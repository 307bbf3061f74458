SPECIFICATION Spec
CONSTANTS
    Users = {"ann", "ben"}
    Orders = {"a1", "a2", "b1", "gift"}
    Codes = {"FRIEND", "SPRING"}
    Workers = {w1, w2}
    None = "none"
    Buyer <- MCBuyer
    Manual = {"gift"}
    Owner <- MCOwner
    MaxUses <- MCMaxUses
    CodeEnds <- MCCodeEnds
    Members = {"ben"}
    LinkCode <- MCLinkCode
    Price = 10
    Percent = 25
    Points <- MCPoints
    PointsVest = 0
    PointsEnd = 1
    Asked = {9}
    MaxNow = 1
    MaxCalls = 3
SYMMETRY Handlers
INVARIANTS
    HalfInCash
    ConsumedOnce
    OverdraftHasACause
    LimitsPassedOnlyTogether
CHECK_DEADLOCK FALSE
