CONSTANTS
  a1 = a1
  a2 = a2
  m1 = m1
  c1 = c1
  g1 = g1
  t1 = t1
  t2 = t2
  i1 = i1
  i2 = i2
  r1 = r1
  r2 = r2
  NONE = NONE
  Accounts = {a1, a2}
  Mails = {m1}
  Chats = {c1}
  Googles = {g1}
  MailOf <- MCMailOf
  Sources = {i1, i2}
  Tokens = {t1, t2}
  Reqs = {r1, r2}
  LIMIT = 1
  WINDOW = 1
  MAX_SESSIONS = 1
  SESSION_LIFE = 1
  ACCESS_LIFE = 1
  VERIFY_LIFE = 0
  RESET_LIFE = 0
  LINK_LIFE = 0
  MAX_TIME = 1
  MAX_PW = 2
  MAX_LINKS = 2
  MAX_CALLS = 5
SYMMETRY MCSymmetry
SPECIFICATION Spec
INVARIANTS
  CutOffAfterReset
  LinksWorkOnce
  GoogleTiedToItsMailbox
  FailsWithinLimit
PROPERTIES
  KeepsPromise
  ChatMoves
CHECK_DEADLOCK FALSE
