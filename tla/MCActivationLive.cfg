SPECIFICATION FairSpec
CONSTANTS
    Users = {"u1"}
    Payments = {"first", "gift"}
    Handlers = {"h1"}
    Devices = {"t1", "d3", "d4"}
    TrialDevices = {"t1"}
    None = "none"
    Buyer <- MCBuyer
    Referrer <- MCReferrer
    Provider <- MCProvider
    HeldBy <- MCHeldBy
    PlanDays = 1
    RewardDays = 1
    Vesting = 0
    FirstEnd = 1
    Faults = {"fetch", "refuseDel"}
    MaxNow = 3
    MaxActs = 2
PROPERTIES
    ConfirmedIsSettled
    EndedIsOff
CHECK_DEADLOCK FALSE
