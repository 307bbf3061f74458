SPECIFICATION FairSpec
CONSTANTS
    Hosts = {"entry"}
    Kinds = {"disk"}
    Confirm = 2
INVARIANTS
    RecordsAgree
    NoFalseAllClear
    ToldInARow
PROPERTIES
    StandingIsTold
    EndIsTold
