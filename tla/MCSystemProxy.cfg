SPECIFICATION HostSpec
CONSTANTS
  Services = {wifi, ether}
  Watched = wifi
  MaxRuns = 2
  MaxEdits = 2
  MaxLosses = 1
INVARIANTS  CAIsWhole
PROPERTIES   SentinelRescues
CHECK_DEADLOCK FALSE
