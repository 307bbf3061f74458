SPECIFICATION Spec
CONSTANTS
    Users = {"u1", "u2"}
    Payments = {"first", "renewal"}
    Handlers = {h1, h2}
    Devices = {"d2", "d3"}
    TrialDevices = {}
    None = "none"
    Buyer <- MCBuyer
    Referrer <- MCReferrer
    Provider <- MCProvider
    HeldBy <- MCHeldBy
    PlanDays = 1
    RewardDays = 1
    Vesting = 0
    FirstEnd = 1
    Faults = {"refuseAdd", "refuseDel", "timeout", "crash"}
    MaxNow = 2
    MaxActs = 2
SYMMETRY Requests
INVARIANTS
    ActivatedOnlyIfConfirmed
    OnceIfNeverMet
    NodeAndRowsAgree
    TimeIsAccountedFor
CHECK_DEADLOCK FALSE
