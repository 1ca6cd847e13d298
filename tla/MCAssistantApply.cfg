SPECIFICATION AssistantSpec
CONSTANTS
  Subjects = {s1}
  First <- MCFirst
  Messages = {m1}
  Applies = {a1, a2}
  Reverts = {r1}
  Proposals <- MCProposals
  MaxEdits = 1
  MaxFails = 1
INVARIANT RevertibleToBefore
PROPERTIES RevertRestores
SYMMETRY Symmetry
CHECK_DEADLOCK FALSE
