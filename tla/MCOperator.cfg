SPECIFICATION OperatorSpec
CONSTANTS
  Servers = {"entry"}
  Linked = {"entry"}
  Stale = 1
  MaxProblems = 1
  Messages = {"m1", "m2"}
  Author <- MCAuthor
  SupportLimit = 1
  MaxDeaths = 1
INVARIANTS
  LettersAlternate
  PageIsHonest
  ReceivedCanBeAnswered
PROPERTIES
  SilenceIsTold
CHECK_DEADLOCK FALSE
