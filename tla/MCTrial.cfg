SPECIFICATION Spec
CONSTANTS
    Users = {"ann", "bob", "cy"}
    Telegrams = {"t"}
    Handlers = {h1, h2}
    Names = {"ipetrov", "cy"}
    Domains = {"gmail", "googlemail", "yopmail"}
    None = None
    EmailOf <- MCEmailOf
    AliasOf <- MCAliasOf
    Dotless = {"gmail", "googlemail"}
    Disposable = {"yopmail"}
    Cap = 1
    Window = 0
    Days = 1
    Buyers = {"ann"}
    MaxNow = 1
SYMMETRY Interchangeable
INVARIANTS
    OneTrialOneDevice
    CapUnlessRaced
    NoTrialBesidePaid
CHECK_DEADLOCK FALSE
