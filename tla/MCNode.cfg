SPECIFICATION Spec
CONSTANTS
    k1 = k1
    k2 = k2
    k3 = k3
    Keys <- MCKeys
    IPs = {1, 2}
    Procs = {p1, p2}
    None = None
    Start <- MCStart
    MaxTries = 2
    MaxReboots = 1
SYMMETRY Alike
INVARIANTS
    AnswersStayTrue
    FileAndInterfaceAgree
CHECK_DEADLOCK FALSE
