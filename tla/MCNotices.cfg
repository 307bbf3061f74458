SPECIFICATION NoticesSpec
CONSTANTS
  j1 = j1
  j2 = j2
  Users = {"u1"}
  Requests = {"r1"}
  Jobs = {j1, j2}
  Mailed = {"u1"}
  Chats = {}
  Three = 2
  One = 1
  Period = 1
  TrialDays = 1
  MaxNow = 3
  LastEnd = 4
  MaxJobDeaths = 1
SYMMETRY MCSymmetry
INVARIANTS
  ToldOnce
  NoticesGoOut
  ClearedIsTold
CHECK_DEADLOCK FALSE
