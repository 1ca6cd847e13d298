SPECIFICATION Spec
CONSTANTS
  d1 = d1
  d2 = d2
  x = x
  Attempts = {d1, d2, x}
  InBrowser = {x}
  Ports = {p1, p2}
  Callback = callback
  Members = {alice, bob}
  None = None
  MaxCodes = 2
INVARIANTS SignedInByApprover OneTokenPerCode
PROPERTIES SignInEnds
CHECK_DEADLOCK FALSE
