SPECIFICATION Spec
CONSTANTS
  Workers = {w1, w2}
  MaxTokens = 2
  MaxVersion = 2
  MaxRestarts = 1
 
PROPERTIES DeadTokenIsForgotten PolicyCatchesUp
CHECK_DEADLOCK FALSE
