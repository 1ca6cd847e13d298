SPECIFICATION Spec
CONSTANTS
  p1 = p1
  p2 = p2
  p3 = p3
  d1 = d1
  d2 = d2
  d3 = d3
  r1 = r1
  r2 = r2
  Prompts <- MCPrompts
  Deliveries <- MCDeliveries
  Reads <- MCReads
  Limit = 1
  TTL = 1
  Grace = 1
  MaxInputs = 5
  MaxTime = 4
SYMMETRY MCSymmetry
INVARIANTS ChecksHoldUpToOverlap
PROPERTIES  CutOffWithinTTL
CHECK_DEADLOCK FALSE
