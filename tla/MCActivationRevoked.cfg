SPECIFICATION Spec
CONSTANTS
    Users = {"u2"}
    Payments = {"renewal"}
    Handlers = {"h1"}
    Devices = {"d2"}
    TrialDevices = {}
    None = "none"
    Buyer <- MCBuyer
    Referrer <- MCReferrer
    Provider <- MCProvider
    HeldBy <- MCHeldBy
    PlanDays = 1
    RewardDays = 1
    Vesting = 0
    FirstEnd = 1
    Faults = {}
    MaxNow = 2
    MaxActs = 2
PROPERTY RevokesOnlyEnded
CHECK_DEADLOCK FALSE
