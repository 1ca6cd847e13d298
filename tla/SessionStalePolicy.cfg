SPECIFICATION Spec
CONSTANTS
  Workers = {w1, w2}
  MaxTokens = 1
  MaxVersion = 1
  MaxRestarts = 0
INVARIANT SignedOutEnforcesNothing
CHECK_DEADLOCK FALSE
