SPECIFICATION DeskSpec
CONSTANTS
  Requests = {r1, r2}
  None = None
  MaxEntries = 1
INVARIANTS LastPromptReachesPage NoticeIsTrue OutcomeIffSettled
PROPERTIES GateSpec ScannedRequestEnds NoticeGoesAway
CHECK_DEADLOCK FALSE
