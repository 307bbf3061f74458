CONSTANTS
  d1 = d1
  d2 = d2
  p1 = p1
  p2 = p2
  NONE = NONE
  Devices = {d1, d2}
  Pages = {p1, p2}
  Owner <- MCOwner
  Before <- MCBefore
  MAX_SIGNINS = 2
  MAX_OPS = 3
SPECIFICATION Spec
SYMMETRY MCSymmetry
INVARIANTS
  TokensAreCurrent
  TunnelOnSelected
PROPERTIES
  ChosenIsKept
CHECK_DEADLOCK FALSE
